---- MODULE Spec2Model ----
(***************************************************************************)
(* Verification model of wt_blk: the VROMF unpacker facade                 *)
(* (vromf/unpacker.rs), the one-file BLK entry point (blk/mod.rs), the     *)
(* BLK tree model (blk/blk_structure.rs) with its emitters, the binary     *)
(* BLK parser (binary/parser.rs, binary/nm_file.rs,                        *)
(* binary/blk_block_hierarchy.rs) and the VROMF outer decoder              *)
(* (vromf/binary_container.rs).                                            *)
(*                                                                         *)
(* Bytes are small naturals.  A name is a sequence of characters in which  *)
(* the word "override" and the colon are single characters, so that the    *)
(* pattern "override:" is the two-character sequence OverridePrefix.       *)
(***************************************************************************)
EXTENDS Integers, Sequences, FiniteSets, TLC

VARIABLES
    \* ---- BLK tree model (blk/blk_structure.rs)
    blk,        \* the tree under construction / transformation
    blk0,       \* the tree as it was before the first apply_overrides
    blk1,       \* the tree after the first apply_overrides
    passes,     \* number of apply_overrides calls made so far
    \* ---- VromfUnpacker (vromf/unpacker.rs)
    files,      \* VromfUnpacker.files: the inner directory, in order
    format,     \* unpack_blk_into: "none" | "Json" | "BlkText"
    pc,         \* position of unpack_all_with_progress
    total,      \* remaining_total.1
    remaining,  \* remaining_total.0
    iterPos,    \* par_bridge: next position of the shared sequential iterator
    full,       \* while_some: the shared "full" flag
    savedError, \* Result collect: the saved first error ("" = none)
    wstate,     \* per worker: "idle" | "busy" | "end"
    witem,      \* per worker: position of the member it holds
    wout,       \* per worker: the entries its folder has collected
    result,     \* what the latest call (unpack_all, unpack_one, unpack_blk) returned
    finished,   \* number of members whose closure call has returned
    parseCalls, \* the calls of parse_blk made by the latest call: member, input
    \* ---- tree operations and emitters (blk/plaintext_serialize, pointer)
    doc,        \* the tree the emitters and pointer work on
    ret,        \* what the latest operation on doc returned
    \* ---- binary BLK parser (binary/parser.rs)
    image,      \* the sections of the BLK payload handed to parse_blk
    parseOut,   \* what parse_blk returned for the payload
    nmOut,      \* what the latest call of binary/nm_file.rs returned
    \* ---- VROMF outer decoder (vromf/binary_container.rs)
    vromf,      \* the archive file handed to decode_bin_vromf
    decoded     \* what decode_bin_vromf returned for it

treeVars == <<blk, blk0, blk1, passes>>
unpackerVars == <<files, format, pc, total, remaining, iterPos, full, savedError,
                  wstate, witem, wout, result, finished, parseCalls>>
docVars == <<doc, ret>>
parserVars == <<image, parseOut, nmOut>>
containerVars == <<vromf, decoded>>
vars == <<blk, blk0, blk1, passes, files, format, pc, total, remaining,
          iterPos, full, savedError, wstate, witem, wout, result, finished,
          parseCalls, doc, ret, image, parseOut, nmOut, vromf, decoded>>

-----------------------------------------------------------------------------
(* Bounds of the model *)

MaxKids == 3        \* children inserted under the root
MaxNested == 2      \* children inserted under a nested Struct
MaxFiles == 2       \* inner files of an archive
NumWorkers == 2     \* splits of the parallel bridge (worker threads)

-----------------------------------------------------------------------------
(* BLK tree model: blk/blk_structure.rs *)

OverridePrefix == <<"override", ":">>

NameX == <<"x">>
NameY == <<"y">>
NameOverrideX == <<"override", ":", "x">>
\* "override:overoverride:ride:x" in the two-character reading of "override:"
NameNestedOverride == <<"override", ":", "override", "override", ":", ":", "x">>

Value(name, v) == [kind |-> "Value", name |-> name, val |-> v, kids |-> <<>>]
Struct(name, kids) == [kind |-> "Struct", name |-> name, val |-> 0, kids |-> kids]
Merged(name, kids) == [kind |-> "Merged", name |-> name, val |-> 0, kids |-> kids]

new_root == Struct(<<"root">>, <<>>)

get_name(f) == f.name

set_name_keep(f, new) == f

set_name(f, new) == [f EXCEPT !.name = new]

\* str::starts_with
starts_with(s, pat) ==
    Len(s) >= Len(pat) /\ SubSeq(s, 1, Len(pat)) = pat

\* str::replace(pat, ""): every non-overlapping match, left to right
RECURSIVE replace(_, _)
replace(s, pat) ==
    IF Len(s) < Len(pat) THEN s
    ELSE IF SubSeq(s, 1, Len(pat)) = pat
         THEN replace(SubSeq(s, Len(pat) + 1, Len(s)), pat)
         ELSE <<Head(s)>> \o replace(Tail(s), pat)

\* IndexMap::insert: an existing key keeps its position and takes the new value
IndexMapInsert(map, k, v) ==
    IF \E i \in 1..Len(map) : map[i].key = k
    THEN [i \in 1..Len(map) |->
            IF map[i].key = k THEN [key |-> k, value |-> v] ELSE map[i]]
    ELSE Append(map, [key |-> k, value |-> v])

\* IndexMap::from_iter over (name, field) pairs
RECURSIVE IndexMapFromIter(_, _)
IndexMapFromIter(map, fields) ==
    IF fields = <<>> THEN map
    ELSE IndexMapFromIter(IndexMapInsert(map, get_name(Head(fields)), Head(fields)),
                          Tail(fields))

\* the loop "for (key, mut value) in with_name.0"
RECURSIVE ReplaceKeys(_, _)
ReplaceKeys(map, overrides) ==
    IF overrides = <<>> THEN map
    ELSE LET value == Head(overrides)
             replaced == replace(get_name(value), OverridePrefix)
             hit == \E i \in 1..Len(map) : map[i].key = replaced
             next == IF hit
                     THEN [i \in 1..Len(map) |->
                             IF map[i].key = replaced
                             THEN [key |-> replaced, value |-> set_name(value, replaced)]
                             ELSE map[i]]
                     ELSE map
         IN ReplaceKeys(next, Tail(overrides))

IsOverride(f) == starts_with(get_name(f), OverridePrefix)

RECURSIVE apply_overrides(_)
apply_overrides(f) ==
    IF f.kind = "Struct"
    THEN LET moved_values == [i \in 1..Len(f.kids) |-> apply_overrides(f.kids[i])]
             overrides == SelectSeq(moved_values, IsOverride)
             others == SelectSeq(moved_values, LAMBDA e : ~IsOverride(e))
             map == ReplaceKeys(IndexMapFromIter(<<>>, others), overrides)
         IN [f EXCEPT !.kids = [i \in 1..Len(map) |-> map[i].value]]
    ELSE f

insert_field_front(f, field) ==
    IF f.kind = "Struct"
    THEN [ok |-> TRUE, field |-> [f EXCEPT !.kids = <<field>> \o f.kids]]
    ELSE [ok |-> FALSE, field |-> f]

\* insert_field: [ok, field]; fails on anything that is not a Struct
insert_field(f, field) ==
    IF f.kind = "Struct"
    THEN [ok |-> TRUE, field |-> [f EXCEPT !.kids = Append(f.kids, field)]]
    ELSE [ok |-> FALSE, field |-> f]

-----------------------------------------------------------------------------
(* Building and transforming a tree *)

\* what the builder may insert under the root
RootFields ==
    { Value(NameX, 0), Value(NameX, 42), Value(NameOverrideX, 42),
      Value(NameNestedOverride, 42), Struct(NameY, <<>>) }

\* what the builder may insert under a child of the root
NestedFields == { Value(NameX, 0), Value(NameOverrideX, 42) }

InitBlk ==
    /\ blk = new_root
    /\ blk0 = new_root
    /\ blk1 = new_root
    /\ passes = 0

\* root.insert_field(field)
InsertField(field) ==
    /\ passes = 0
    /\ Len(blk.kids) < MaxKids
    /\ blk' = insert_field(blk, field).field
    /\ UNCHANGED <<blk0, blk1, passes, unpackerVars, docVars, parserVars, containerVars>>

\* root.kids[i].insert_field(field); a Value child refuses and stays as it is
InsertNested(i, field) ==
    /\ passes = 0
    /\ i \in 1..Len(blk.kids)
    /\ Len(blk.kids[i].kids) < MaxNested
    /\ blk' = [blk EXCEPT !.kids[i] = insert_field(blk.kids[i], field).field]
    /\ UNCHANGED <<blk0, blk1, passes, unpackerVars, docVars, parserVars, containerVars>>

\* root.apply_overrides(), at most twice in a row
ApplyOverrides ==
    /\ passes < 2
    /\ blk' = apply_overrides(blk)
    /\ blk0' = IF passes = 0 THEN blk ELSE blk0
    /\ blk1' = IF passes = 0 THEN apply_overrides(blk) ELSE blk1
    /\ passes' = passes + 1
    /\ UNCHANGED <<unpackerVars, docVars, parserVars, containerVars>>

NextTree ==
    \/ \E field \in RootFields : InsertField(field)
    \/ \E i \in 1..MaxKids, field \in NestedFields : InsertNested(i, field)
    \/ ApplyOverrides

-----------------------------------------------------------------------------
(* Claims about apply_overrides *)

NonOverrides(f) == SelectSeq(f.kids, LAMBDA e : ~IsOverride(e))
Overrides(f) == SelectSeq(f.kids, IsOverride)

\* the override children of b that name X: "override:" followed by X
OverridesOf(b, X) ==
    {k \in 1..Len(Overrides(b)) : get_name(Overrides(b)[k]) = OverridePrefix \o X}


\* a field without its children
Shallow(f) == [kind |-> f.kind, name |-> f.name, val |-> f.val]

Named(seq, X) == SelectSeq(seq, LAMBDA e : get_name(e) = X)

\* C8: after apply_overrides on a Struct with a child override:X and siblings named
\* X, the first sibling named X is that override child under the name X, every
\* other sibling named X is as it was, and no child is named override:X any more
C8_OverrideReplacesFirst ==
    passes >= 1 =>
        \A i \in 1..Len(NonOverrides(blk0)) :
            LET X == get_name(NonOverrides(blk0)[i])
                before == Named(NonOverrides(blk0), X)
                after == Named(blk1.kids, X)
            IN  OverridesOf(blk0, X) # {} =>
                   /\ Len(after) = Len(before)
                   /\ \E k \in OverridesOf(blk0, X) :
                         Shallow(after[1]) = Shallow(set_name(Overrides(blk0)[k], X))
                   /\ \A j \in 2..Len(before) : Shallow(after[j]) = Shallow(before[j])
                   /\ Named(blk1.kids, OverridePrefix \o X) = <<>>

RECURSIVE HasOverride(_)
HasOverride(f) ==
    \E i \in 1..Len(f.kids) : IsOverride(f.kids[i]) \/ HasOverride(f.kids[i])

\* a keeps the non-override children of b, in their order, each untouched or
\* replaced in place by one of its overrides
RECURSIVE KeepsNonOverrides(_, _)
KeepsNonOverrides(b, a) ==
    IF b.kind # "Struct" THEN a = b
    ELSE /\ a.kind = "Struct"
         /\ a.name = b.name
         /\ Len(a.kids) = Len(NonOverrides(b))
         /\ \A i \in 1..Len(NonOverrides(b)) :
              LET X == get_name(NonOverrides(b)[i])
              IN \/ KeepsNonOverrides(NonOverrides(b)[i], a.kids[i])
                 \/ \E k \in OverridesOf(b, X) :
                        KeepsNonOverrides(set_name(Overrides(b)[k], X), a.kids[i])

\* C9: apply_overrides keeps the non-override children of every Struct in their
\* original order, each untouched or replaced in place by its override, and a
\* tree without any override child is left equal to what it was
C9_NonOverridesPreserved ==
    passes >= 1 =>
        /\ KeepsNonOverrides(blk0, blk1)
        /\ (~HasOverride(blk0) => blk1 = blk0)

\* C10: applying apply_overrides a second time changes nothing
C10_OverrideIdempotent ==
    passes = 2 => blk = blk1

\* C10 witness: the second pass has run on a tree whose first pass applied an
\* override at the root and another inside a nested Struct
C10_Witness ==
    /\ passes = 2
    /\ blk1 # blk0
    /\ OverridesOf(blk0, NameX) # {}
    /\ \E i \in 1..Len(blk0.kids) : get_name(blk0.kids[i]) = NameX
    /\ \E i \in 1..Len(blk0.kids) :
          /\ blk0.kids[i].kind = "Struct"
          /\ OverridesOf(blk0.kids[i], NameX) # {}
          /\ \E j \in 1..Len(blk0.kids[i].kids) :
                get_name(blk0.kids[i].kids[j]) = NameX

-----------------------------------------------------------------------------
(* Byte-level helpers of the unpacker *)

RECURSIVE Reverse(_)
Reverse(s) == IF s = <<>> THEN <<>> ELSE Reverse(Tail(s)) \o <<Head(s)>>

Ok(bytes) == [ok |-> TRUE, bytes |-> bytes, err |-> ""]
Err(e) == [ok |-> FALSE, bytes |-> <<>>, err |-> e]

\* FileType: the tag byte of a BLK payload
FAT_ZSTD == 5
from_byte(b) == IF b \in 1..5 THEN Ok(<<b>>) ELSE Err("UnknownFileType")
is_slim(tag) == tag \in {2, 3, 4}
is_zstd(tag) == tag \in {3, 4, 5}

\* decode_zstd: the frame follows the tag byte; a frame is its magic byte (40)
\* followed by the compressed body, and decompression is the reversal of the body.
\* Tag 4 needs the dictionary.
decode_zstd(file, hasDict) ==
    IF Len(file) < 2 \/ file[2] # 40 THEN Err("ZstdError")
    ELSE IF file[1] = 4 /\ ~hasDict THEN Err("MissingDictionary")
    ELSE Ok(Reverse(SubSeq(file, 3, Len(file))))

\* parse_blk of the blk module: walks the header of the payload (every ULEB128
\* is a single byte below 128) and yields the tree, here the payload it was
\* decoded from together with the dialect
blk_parse_blk(input, slim, hasNm) ==
    LET n == Len(input)
        names_end == IF slim THEN 1 ELSE IF n >= 2 THEN 2 + input[2] ELSE n + 1
        blocks_count == input[names_end + 1]
        params_count == input[names_end + 2]
        params_data_size == input[names_end + 3]
        info_end == names_end + 3 + params_data_size + params_count * 8
    IN  IF slim /\ ~hasNm THEN Err("MissingNameMap")
        ELSE IF n < 1 \/ names_end > n THEN Err("BadUleb")
        ELSE IF names_end + 3 > n THEN Err("BadUleb")
        ELSE IF info_end > n THEN Err("OutOfBounds")
        ELSE IF blocks_count = 0 THEN Err("EmptyBlockTable")
        ELSE IF n - info_end < 3 * blocks_count THEN Err("BadUleb")
        ELSE Ok(<<IF slim THEN 1 ELSE 0>> \o input)

\* the emitters on a parsed tree: Json opens with '{' (123), BlkText with 't' (116)
render(fmt, tree) == <<IF fmt = "Json" THEN 123 ELSE 116>> \o tree

\* Path::extension of a path <<stem, extension>>; "" is no extension
extension(path) == path[2]

maybe_blk_any_extension(file) ==
    /\ Len(file.bytes) > 0
    /\ from_byte(file.bytes[1]).ok

maybe_blk(file) ==
    /\ extension(file.path) = "blk"
    /\ Len(file.bytes) > 0
    /\ from_byte(file.bytes[1]).ok

\* from_file: the name map and the dictionary are found among the inner files
has_nm(fs) == \E i \in 1..Len(fs) : fs[i].path = <<"nm", "">>
has_dict(fs) == \E i \in 1..Len(fs) : extension(fs[i].path) = "dict"

-----------------------------------------------------------------------------
(* The three decode paths *)

NoCall == [reached |-> FALSE, input |-> <<>>]
Call(input) == [reached |-> TRUE, input |-> input]

\* the closure with per-file errors recovered: the member is passed on raw
map_closure_recovering(file, fmt, hasNm, hasDict) ==
    LET tag == file.bytes[1]
        zstd == decode_zstd(file.bytes, hasDict)
        data == IF is_zstd(tag) THEN zstd.bytes ELSE file.bytes
        offset == IF is_zstd(tag) THEN 0 ELSE 1
        input == SubSeq(data, offset + 1, Len(data))
        parsed == blk_parse_blk(input, is_slim(tag), hasNm)
    IN  IF /\ maybe_blk(file) /\ fmt # "none"
           /\ (is_zstd(tag) => zstd.ok)
           /\ parsed.ok
        THEN [ok |-> TRUE, file |-> [file EXCEPT !.bytes = render(fmt, parsed.bytes)],
              err |-> "", call |-> Call(input)]
        ELSE [ok |-> TRUE, file |-> file, err |-> "", call |-> NoCall]

\* the closure handing back another path than the member's
map_closure_renaming(file, fmt, hasNm, hasDict) ==
    [ok |-> TRUE, file |-> [file EXCEPT !.path = <<file.path[1], "json">>],
     err |-> "", call |-> NoCall]

\* outcome of handling one member: the Result, and the parse_blk call if one was made
Outcome(ok, file, err, call) == [ok |-> ok, file |-> file, err |-> err, call |-> call]

\* the closure given to map in unpack_all_with_progress, up to "res"
map_closure(file, fmt, hasNm, hasDict) ==
    IF maybe_blk(file) /\ fmt # "none"
    THEN LET file_type == from_byte(file.bytes[1])
             tag == file.bytes[1]
             zstd == decode_zstd(file.bytes, hasDict)
             data == IF is_zstd(tag) THEN zstd.bytes ELSE file.bytes
             offset == IF is_zstd(tag) THEN 0 ELSE 1
             input == SubSeq(data, offset + 1, Len(data))
             parsed == blk_parse_blk(input, is_slim(tag), hasNm)
         IN  IF ~file_type.ok THEN Outcome(FALSE, file, file_type.err, NoCall)
             ELSE IF is_zstd(tag) /\ ~zstd.ok THEN Outcome(FALSE, file, zstd.err, NoCall)
             ELSE IF ~parsed.ok THEN Outcome(FALSE, file, parsed.err, Call(input))
             ELSE Outcome(TRUE, [file EXCEPT !.bytes = render(fmt, parsed.bytes)],
                          "", Call(input))
    ELSE Outcome(TRUE, file, "", NoCall)

\* Iterator::find over the directory: the position of the first match, 0 if none
find_last(fs, path_name) ==
    IF \E i \in 1..Len(fs) : fs[i].path = path_name
    THEN CHOOSE i \in 1..Len(fs) :
            /\ fs[i].path = path_name
            /\ \A j \in (i + 1)..Len(fs) : fs[j].path # path_name
    ELSE 0

find(fs, path_name) ==
    IF \E i \in 1..Len(fs) : fs[i].path = path_name
    THEN CHOOSE i \in 1..Len(fs) :
            /\ fs[i].path = path_name
            /\ \A j \in 1..(i - 1) : fs[j].path # path_name
    ELSE 0

\* unpack_one without the decode step: the raw bytes of the file found
unpack_one_raw(fs, path_name, fmt, hasNm, hasDict) ==
    LET at == find(fs, path_name) IN
    IF at = 0
    THEN Outcome(FALSE, [path |-> path_name, bytes |-> <<>>],
                 "File {path_name} was not found in VROMF", NoCall)
    ELSE Outcome(TRUE, fs[at], "", NoCall)

\* unpack_one(&self, path_name, unpack_blk_into)
unpack_one(fs, path_name, fmt, hasNm, hasDict) ==
    LET at == find(fs, path_name) IN
    IF at = 0
    THEN Outcome(FALSE, [path |-> path_name, bytes |-> <<>>],
                 "File {path_name} was not found in VROMF", NoCall)
    ELSE LET file == fs[at] IN
         IF maybe_blk(file) /\ fmt # "none"
         THEN LET file_type == from_byte(file.bytes[1])
                  tag == file.bytes[1]
                  zstd == decode_zstd(file.bytes, hasDict)
                  data == IF is_zstd(tag) THEN zstd.bytes ELSE file.bytes
                  offset == IF is_zstd(tag) THEN 0 ELSE 1
                  input == SubSeq(data, offset + 1, Len(data))
                  parsed == blk_parse_blk(input, is_slim(tag), hasNm)
              IN  IF ~file_type.ok THEN Outcome(FALSE, file, file_type.err, NoCall)
                  ELSE IF is_zstd(tag) /\ ~zstd.ok
                       THEN Outcome(FALSE, file, zstd.err, NoCall)
                  ELSE IF ~parsed.ok THEN Outcome(FALSE, file, parsed.err, Call(input))
                  ELSE Outcome(TRUE, [file EXCEPT !.bytes = render(fmt, parsed.bytes)],
                               "", Call(input))
         ELSE Outcome(TRUE, file, "", NoCall)

\* unpack_blk(file, dictionary, nm): an empty file, or an empty decompressed
\* fat-zstd payload, is an out-of-range index: a panic
unpack_blk(bytes, hasDict, hasNm) ==
    LET file == [path |-> <<"", "">>, bytes |-> bytes] IN
    IF bytes = <<>> THEN Outcome(FALSE, file, "panic", NoCall)
    ELSE LET file_type == from_byte(bytes[1])
             tag == bytes[1]
             zstd == decode_zstd(bytes, hasDict)
             data == IF is_zstd(tag) THEN zstd.bytes ELSE bytes
             offset == IF is_zstd(tag) THEN (IF tag = FAT_ZSTD THEN 1 ELSE 0) ELSE 1
             input == SubSeq(data, offset + 1, Len(data))
             parsed == blk_parse_blk(input, is_slim(tag), hasNm)
         IN  IF ~file_type.ok THEN Outcome(FALSE, file, file_type.err, NoCall)
             ELSE IF is_zstd(tag) /\ ~zstd.ok THEN Outcome(FALSE, file, zstd.err, NoCall)
             ELSE IF offset > Len(data) THEN Outcome(FALSE, file, "panic", NoCall)
             ELSE IF ~parsed.ok THEN Outcome(FALSE, file, parsed.err, Call(input))
             ELSE Outcome(TRUE, [file EXCEPT !.bytes = parsed.bytes], "", Call(input))

-----------------------------------------------------------------------------
(* Archives *)

\* a fat payload and a slim payload with one empty root block each
GoodFat == <<0, 0, 1, 0, 0, 0, 0, 0>>
GoodSlim == <<0, 1, 0, 0, 0, 0, 0>>

File(stem, ext, bytes) == [path |-> <<stem, ext>>, bytes |-> bytes]

\* the inner files an archive is made of
Pool ==
    { File("a", "blk", <<1>> \o GoodFat),                          \* fat
      File("a", "blk", <<5, 40>> \o Reverse(<<1>> \o GoodFat)),    \* fat zstd, same path
      File("b", "blk", <<>>),                                      \* empty .blk
      File("c", "blk", <<6, 0>>),                                  \* no FileType tag
      File("d", "txt", <<1>> \o GoodFat),                          \* not a .blk
      File("e", "blk", <<3, 40>> \o Reverse(GoodSlim)),            \* slim zstd
      File("nm", "", <<0>>) }                                      \* the name map

Paths == {m.path : m \in Pool} \cup {<<"zz", "blk">>}

Formats == {"none", "Json", "BlkText"}

\* the files unpack_blk is given
BlkInputs ==
    {m.bytes : m \in Pool} \cup
    { <<2>> \o GoodSlim, <<4, 40>> \o Reverse(GoodSlim), <<5, 40>>, <<3, 0>>, <<1, 0>> }

Workers == 1..NumWorkers

NoResult ==
    [op |-> "none", ok |-> FALSE, list |-> <<>>, path |-> <<"", "">>,
     bytes |-> <<>>, err |-> ""]

InitUnpacker ==
    /\ files \in UNION {[1..n -> Pool] : n \in 0..MaxFiles}
    /\ format \in Formats
    /\ pc = "new"
    /\ total = 0
    /\ remaining = 0
    /\ iterPos = 1
    /\ full = FALSE
    /\ savedError = ""
    /\ wstate = [w \in Workers |-> "idle"]
    /\ witem = [w \in Workers |-> 0]
    /\ wout = [w \in Workers |-> <<>>]
    /\ result = NoResult
    /\ finished = 0
    /\ parseCalls = {}

CallsOf(member, o) ==
    IF o.call.reached THEN {[member |-> member, input |-> o.call.input]} ELSE {}

\* unpack_one(&self, path, format)
UnpackOne(path_name) ==
    /\ pc = "new"
    /\ LET o == unpack_one(files, path_name, format, has_nm(files), has_dict(files))
       IN /\ result' = [op |-> "unpack_one", ok |-> o.ok, list |-> <<>>,
                        path |-> path_name,
                        bytes |-> IF o.ok THEN o.file.bytes ELSE <<>>,
                        err |-> o.err]
          /\ parseCalls' = CallsOf(IF find(files, path_name) = 0
                                   THEN [path |-> path_name, bytes |-> <<>>]
                                   ELSE files[find(files, path_name)], o)
    /\ UNCHANGED <<treeVars, docVars, parserVars, containerVars, files, format, pc, total, remaining, iterPos, full, savedError,
                   wstate, witem, wout, finished>>

\* unpack_blk(file, dictionary, nm)
UnpackBlk(bytes, hasDict, hasNm) ==
    /\ pc = "new"
    /\ LET o == unpack_blk(bytes, hasDict, hasNm)
       IN /\ result' = [op |-> "unpack_blk", ok |-> o.ok, list |-> <<>>,
                        path |-> <<"", "">>,
                        bytes |-> IF o.ok THEN o.file.bytes ELSE <<>>,
                        err |-> o.err]
          /\ parseCalls' = CallsOf([path |-> <<"", "">>, bytes |-> bytes], o)
    /\ UNCHANGED <<treeVars, docVars, parserVars, containerVars, files, format, pc, total, remaining, iterPos, full, savedError,
                   wstate, witem, wout, finished>>

\* unpack_all_with_progress: remaining_total.1.store(self.files.len())
StoreTotal ==
    /\ pc = "new"
    /\ pc' = "total_stored"
    /\ total' = Len(files)
    /\ result' = NoResult
    /\ parseCalls' = {}
    /\ UNCHANGED <<treeVars, docVars, parserVars, containerVars, files, format, remaining, iterPos, full, savedError,
                   wstate, witem, wout, finished>>

\* remaining_total.0.store(self.files.len())
StoreRemaining ==
    /\ pc = "total_stored"
    /\ pc' = "fanout"
    /\ remaining' = Len(files)
    /\ UNCHANGED <<treeVars, docVars, parserVars, containerVars, files, format, total, iterPos, full, savedError,
                   wstate, witem, wout, result, finished, parseCalls>>

\* par_bridge: a worker locks the shared iterator and takes the next member
Take(w) ==
    /\ pc = "fanout"
    /\ wstate[w] = "idle"
    /\ ~full
    /\ iterPos <= Len(files)
    /\ witem' = [witem EXCEPT ![w] = iterPos]
    /\ iterPos' = iterPos + 1
    /\ wstate' = [wstate EXCEPT ![w] = "busy"]
    /\ UNCHANGED <<treeVars, docVars, parserVars, containerVars, files, format, pc, total, remaining, full, savedError,
                   wout, result, finished, parseCalls>>

\* a worker finds the iterator exhausted or the consumer full, and returns its folder
Stop(w) ==
    /\ pc = "fanout"
    /\ wstate[w] = "idle"
    /\ full \/ iterPos > Len(files)
    /\ wstate' = [wstate EXCEPT ![w] = "end"]
    /\ UNCHANGED <<treeVars, docVars, parserVars, containerVars, files, format, pc, total, remaining, iterPos, full, savedError,
                   witem, wout, result, finished, parseCalls>>

\* the worker runs the closure on its member and hands the Result on: on Ok the
\* closure has decremented remaining and the file joins the worker's folder; an
\* Err left the closure at its "?", is saved if it is the first, and sets full
Finish(w) ==
    /\ pc = "fanout"
    /\ wstate[w] = "busy"
    /\ LET file == files[witem[w]]
           o == map_closure(file, format, has_nm(files), has_dict(files))
       IN /\ remaining' = IF o.ok THEN remaining - 1 ELSE remaining
          /\ wout' = IF o.ok THEN [wout EXCEPT ![w] = Append(@, o.file)] ELSE wout
          /\ savedError' = IF ~o.ok /\ savedError = "" THEN o.err ELSE savedError
          /\ full' = (full \/ ~o.ok)
          /\ parseCalls' = parseCalls \cup CallsOf(file, o)
    /\ finished' = finished + 1
    /\ wstate' = [wstate EXCEPT ![w] = "idle"]
    /\ UNCHANGED <<treeVars, docVars, parserVars, containerVars, files, format, pc, total, iterPos, witem, result>>

RECURSIVE Flatten(_, _)
Flatten(lists, n) == IF n = 0 THEN <<>> ELSE Flatten(lists, n - 1) \o lists[n]

\* collect::<Result<Vec<File>, Report>>: the folders of the splits are appended in
\* split order; a saved error replaces the list
collect(lists, error) ==
    IF error # ""
    THEN [op |-> "unpack_all", ok |-> FALSE, list |-> <<>>, path |-> <<"", "">>,
          bytes |-> <<>>, err |-> error]
    ELSE [op |-> "unpack_all", ok |-> TRUE, list |-> Flatten(lists, NumWorkers),
          path |-> <<"", "">>, bytes |-> <<>>, err |-> ""]

Collect ==
    /\ pc = "fanout"
    /\ \A w \in Workers : wstate[w] = "end"
    /\ result' = collect(wout, savedError)
    /\ pc' = "done"
    /\ UNCHANGED <<treeVars, docVars, parserVars, containerVars, files, format, total, remaining, iterPos, full, savedError,
                   wstate, witem, wout, finished, parseCalls>>

Next ==
    \/ \E path_name \in Paths : UnpackOne(path_name)
    \/ \E bytes \in BlkInputs, hasDict \in BOOLEAN, hasNm \in BOOLEAN :
          UnpackBlk(bytes, hasDict, hasNm)
    \/ StoreTotal
    \/ StoreRemaining
    \/ \E w \in Workers : Take(w)
    \/ \E w \in Workers : Stop(w)
    \/ \E w \in Workers : Finish(w)
    \/ Collect

-----------------------------------------------------------------------------
(* Claims about the unpacker *)

\* the member is one the unpacker is to decode: a .blk, not empty, opening with
\* a FileType tag, and a format is asked for
ShouldDecode(file, fmt) ==
    /\ file.path[2] = "blk"
    /\ file.bytes # <<>>
    /\ file.bytes[1] \in 1..5
    /\ fmt # "none"

\* what decoding the member comes to: the frame is decompressed for the tags 3, 4
\* and 5, the tag byte is dropped for the tags 1 and 2, and the rest is parsed
DecodingOf(file) ==
    LET tag == file.bytes[1]
        zstd == decode_zstd(file.bytes, has_dict(files))
    IN  IF tag \in {3, 4, 5}
        THEN IF zstd.ok THEN blk_parse_blk(zstd.bytes, is_slim(tag), has_nm(files))
                        ELSE zstd
        ELSE blk_parse_blk(Tail(file.bytes), is_slim(tag), has_nm(files))

MemberFails(file) == ShouldDecode(file, format) /\ ~DecodingOf(file).ok

Matches(path_name) == {i \in 1..Len(files) : files[i].path = path_name}
FirstMatch(path_name) ==
    CHOOSE i \in Matches(path_name) : \A j \in Matches(path_name) : i <= j

Count(list, path_name) == Cardinality({i \in 1..Len(list) : list[i].path = path_name})

AllReturned == result.op = "unpack_all" /\ result.ok

\* C1: the list unpack_all returns is in directory order: its entry i is the one
\* produced from inner file i, whatever the interleaving of the workers
C1_OutputInDirectoryOrder ==
    AllReturned =>
        /\ Len(result.list) = Len(files)
        /\ \A i \in 1..Len(result.list) :
              /\ result.list[i].path = files[i].path
              /\ ~ShouldDecode(files[i], format) => result.list[i] = files[i]

\* C2: a successful unpack_all returns one entry per inner file, under that
\* file's path: as many entries as files, and every path as often as in the directory
C2_OneEntryPerFile ==
    AllReturned =>
        /\ Len(result.list) = Len(files)
        /\ \A i \in 1..Len(result.list) :
              /\ Count(result.list, result.list[i].path) = Count(files, result.list[i].path)
              /\ Count(result.list, files[i].path) = Count(files, files[i].path)

\* C2 witness: a Json batch of two files under different paths, one decoded and
\* one passed on raw, has returned
C2_Witness ==
    /\ AllReturned
    /\ format = "Json"
    /\ Len(files) >= 2
    /\ files[1].path # files[2].path
    /\ \E i \in 1..Len(files) : ShouldDecode(files[i], format)
    /\ \E i \in 1..Len(files) : ~ShouldDecode(files[i], format)

\* C3: a member whose decoding fails is recovered locally: unpack_all still
\* returns a list, and the member is in it with its raw bytes
C3_ErrorsRecoveredLocally ==
    pc = "done" =>
        /\ result.ok
        /\ \A i \in 1..Len(files) :
              MemberFails(files[i]) => \E j \in 1..Len(result.list) : result.list[j] = files[i]

\* C3 as amended: unpack_all returns a list exactly when no member's decoding
\* fails; otherwise it returns no list but the error of a failing member
C3_AnyErrorAborts ==
    pc = "done" =>
        /\ result.ok <=> ~ \E i \in 1..Len(files) : MemberFails(files[i])
        /\ ~result.ok =>
              /\ result.list = <<>>
              /\ \E i \in 1..Len(files) :
                    MemberFails(files[i]) /\ result.err = DecodingOf(files[i]).err

\* C3 witness: a batch has ended in an error although a worker had already
\* collected a member
C3_Witness ==
    /\ pc = "done"
    /\ ~result.ok
    /\ \E w \in Workers : wout[w] # <<>>
    /\ \E i \in 1..Len(files) : MemberFails(files[i])

\* the report unpack_one fails with when the path is not in the archive
FileNotInVromf == "File {path_name} was not found in VROMF"

C5_OnlyTaggedBlkDecoded ==
    /\ result.op # "unpack_blk" =>
          \A c \in parseCalls : ShouldDecode(c.member, format)
    /\ AllReturned =>
          \A i \in 1..Len(files) :
              ~ShouldDecode(files[i], format) =>
                  \E j \in 1..Len(result.list) : result.list[j] = files[i]
    /\ (result.op = "unpack_one" /\ Matches(result.path) # {}) =>
          LET file == files[FirstMatch(result.path)] IN
          ~ShouldDecode(file, format) => (result.ok /\ result.bytes = file.bytes)

\* C5 witness: a batch in a format has returned a decoded member next to a
\* member that is a BLK payload under another extension
C5_Witness ==
    /\ AllReturned
    /\ format # "none"
    /\ parseCalls # {}
    /\ \E i \in 1..Len(files) :
          /\ files[i].path[2] # "blk"
          /\ files[i].bytes # <<>>
          /\ files[i].bytes[1] \in 1..5

\* the bytes the parser is to be given for a member
ExpectedParseInput(bytes) ==
    LET payload == decode_zstd(bytes, TRUE).bytes
    IN  IF bytes[1] \in {1, 2} THEN Tail(bytes)
        ELSE IF bytes[1] \in {3, 4} THEN payload
        ELSE Tail(payload)

\* C6: on every decode path parse_blk is given the member without its tag byte
\* (tags 1, 2), the decompressed payload (tags 3, 4), or the decompressed payload
\* without its first byte (tag 5)
C6_ParseInput ==
    \A c \in parseCalls : c.input = ExpectedParseInput(c.member.bytes)

\* C7: once the fan-out has started, total is the number of inner files and
\* remaining is total less the number of members whose processing has finished
C7_ProgressCounter ==
    pc \in {"fanout", "done"} =>
        /\ total = Len(files)
        /\ 0 <= remaining /\ remaining <= total
        /\ remaining = total - finished



\* no two inner files of the archive share a path
DistinctPaths ==
    \A i, j \in 1..Len(files) : files[i].path = files[j].path => i = j

\* C27: on an archive with distinct paths unpack_one agrees with unpack_all:
\* unpack_one succeeds on a path exactly when the closure of unpack_all succeeds
\* on the member under that path, and then returns the bytes of that member's
\* entry; every entry of a list unpack_all returns is what unpack_one returns
\* for its path, and an unpack_all that fails has a member unpack_one fails on
C27_UnpackOneAgreesWithUnpackAll ==
    DistinctPaths =>
        /\ result.op = "unpack_one" =>
              \A i \in 1..Len(files) :
                 files[i].path = result.path =>
                    LET member == map_closure(files[i], format, has_nm(files),
                                              has_dict(files))
                    IN /\ result.ok = member.ok
                       /\ member.ok => result.bytes = member.file.bytes
        /\ AllReturned =>
              \A i \in 1..Len(result.list) :
                 LET one == unpack_one(files, result.list[i].path, format,
                                       has_nm(files), has_dict(files))
                 IN one.ok /\ one.file.bytes = result.list[i].bytes
        /\ (pc = "done" /\ ~result.ok) =>
              \E i \in 1..Len(files) :
                 ~unpack_one(files, files[i].path, format, has_nm(files),
                             has_dict(files)).ok

\* C27 witness: unpack_one has returned the rendering of a member that is to be
\* decoded, from an archive of two files under different paths
C27_Witness ==
    /\ result.op = "unpack_one"
    /\ result.ok
    /\ Len(files) = 2
    /\ DistinctPaths
    /\ \E i \in 1..Len(files) :
          /\ files[i].path = result.path
          /\ ShouldDecode(files[i], format)
          /\ result.bytes # files[i].bytes

-----------------------------------------------------------------------------
(* BLK values and the JSON emitter: blk/plaintext_serialize/json.rs *)

\* BlkType: the variant and its numbers (a Float12 holds 12 floats)
BlkInt(n) == [type |-> "Int", data |-> <<n>>]
BlkFloat(n) == [type |-> "Float", data |-> <<n>>]
BlkFloat12(s) == [type |-> "Float12", data |-> s]

NameM == <<"m">>
NameS == <<"s">>
NameZ == <<"z">>

DupesDescending(old, name) ==
    SelectSeq([i \in 1..Len(old) |-> Len(old) + 1 - i], LAMBDA j : get_name(old[j]) = name)

\* the indexes of the fields of old that carry this name, ascending
Dupes(old, name) ==
    SelectSeq([i \in 1..Len(old) |-> i], LAMBDA j : get_name(old[j]) = name)

merge_fields_shallow(f) ==
    IF f.kind = "Struct"
    THEN LET old == f.kids
             indexes(i) == Dupes(old, get_name(old[i]))
             slot(i) ==
                 IF Len(indexes(i)) > 1
                 THEN IF indexes(i)[1] = i
                      THEN <<Merged(get_name(old[i]),
                                    [k \in 1..Len(indexes(i)) |-> old[indexes(i)[k]]])>>
                      ELSE <<>>
                 ELSE <<old[i]>>
         IN [f EXCEPT !.kids = Flatten([i \in 1..Len(old) |-> slot(i)], Len(old))]
    ELSE f

\* merge_fields: children first, then every group of two or more children of a
\* Struct that share a name becomes one Merged at the group's first index
RECURSIVE merge_fields(_)
merge_fields(f) ==
    IF f.kind = "Struct"
    THEN LET old == [i \in 1..Len(f.kids) |-> merge_fields(f.kids[i])]
             indexes(i) == Dupes(old, get_name(old[i]))
             slot(i) ==
                 IF Len(indexes(i)) > 1
                 THEN IF indexes(i)[1] = i
                      THEN <<Merged(get_name(old[i]),
                                    [k \in 1..Len(indexes(i)) |-> old[indexes(i)[k]]])>>
                      ELSE <<>>
                 ELSE <<old[i]>>
         IN [f EXCEPT !.kids = Flatten([i \in 1..Len(old) |-> slot(i)], Len(old))]
    ELSE f

\* serde_json::Value
JNumber(n) == [json |-> "Number", n |-> n, elems |-> <<>>, members |-> <<>>]
JArray(elems) == [json |-> "Array", n |-> 0, elems |-> elems, members |-> <<>>]
JObject(members) == [json |-> "Object", n |-> 0, elems |-> <<>>, members |-> members]

\* std_num: the float written with {:?} and read back as a JSON number
std_num(num) == JNumber(num)

array_chunks_rows(s, n) ==
    [c \in 1..n |-> SubSeq(s, (c - 1) * (Len(s) \div n) + 1, c * (Len(s) \div n))]

\* slice::array_chunks::<3>: the full chunks of 3, in order
array_chunks(s, n) ==
    [c \in 1..(Len(s) \div n) |-> SubSeq(s, (c - 1) * n + 1, c * n)]

\* the value of a BlkField::Value in JSON
value_json(v) ==
    CASE v.type = "Int" -> JNumber(v.data[1])
      [] v.type = "Float" -> std_num(v.data[1])
      [] v.type = "Float12" ->
            JArray([c \in 1..Len(array_chunks(v.data, 3)) |->
                      JArray([e \in 1..3 |-> std_num(array_chunks(v.data, 3)[c][e])])])

\* serde_json::Map::from_iter: a repeated key keeps one member, with the last value
RECURSIVE MapFromIter(_, _)
MapFromIter(map, pairs) ==
    IF pairs = <<>> THEN map
    ELSE MapFromIter(IndexMapInsert(map, Head(pairs).key, Head(pairs).value),
                     Tail(pairs))

\* as_serde_json and as_serde_obj: [key, value] and self, the field as the call
\* leaves it (both take &mut self)
RECURSIVE as_serde_json(_, _)
RECURSIVE as_serde_obj(_, _)
as_serde_json(f, should_override) ==
    CASE f.kind = "Value" ->
            [key |-> f.name, value |-> value_json(f.val), self |-> f]
      [] f.kind = "Struct" ->
            LET r == [i \in 1..Len(f.kids) |-> as_serde_json(f.kids[i], should_override)]
            IN [key |-> f.name,
                value |-> JObject(MapFromIter(<<>>,
                             [i \in 1..Len(r) |-> [key |-> r[i].key, value |-> r[i].value]])),
                self |-> [f EXCEPT !.kids = [i \in 1..Len(r) |-> r[i].self]]]
      [] f.kind = "Merged" ->
            LET r == [i \in 1..Len(f.kids) |-> as_serde_obj(f.kids[i], should_override)]
            IN [key |-> f.name,
                value |-> JArray([i \in 1..Len(r) |-> r[i].value]),
                self |-> [f EXCEPT !.kids = [i \in 1..Len(r) |-> r[i].self]]]

as_serde_obj(f, should_override) ==
    LET merged == merge_fields(f)
        overridden == IF should_override THEN apply_overrides(merged) ELSE merged
    IN as_serde_json(overridden, should_override)

-----------------------------------------------------------------------------
(* The plaintext block emitter: blk/plaintext_serialize/blockfile.rs *)

\* Text is a sequence of characters; Tab and Newline are "\t" and "\n"
Tab == "tab"
Newline == "newline"

\* str::repeat
repeat(c, n) == [i \in 1..n |-> c]

keep_minuend(a, b) == a

\* usize::saturating_sub
saturating_sub(a, b) == IF a >= b THEN a - b ELSE 0

\* [String]::join
RECURSIVE join(_, _)
join(strings, sep) ==
    IF strings = <<>> THEN <<>>
    ELSE IF Len(strings) = 1 THEN strings[1]
    ELSE strings[1] \o sep \o join(Tail(strings), sep)

\* Display of a BlkType: its numbers, separated by commas, on one line
Display(v) == join([i \in 1..Len(v.data) |-> <<ToString(v.data[i])>>], <<",">>)

TextOk(text) == [ok |-> TRUE, text |-> text, err |-> ""]
TextErrIgnored(e) == [ok |-> TRUE, text |-> <<>>, err |-> ""]
TextErr(e) == [ok |-> FALSE, text |-> <<>>, err |-> e]

MergedInBlkText ==
    "Attempted to parse merged array in blk-text function (array type is not available in the BLK format)"

\* inner_as_blk_text; indent_level is the value of *indent_level at the call
RECURSIVE inner_as_blk_text(_, _, _)
inner_as_blk_text(f, indent_level, is_root) ==
    CASE f.kind = "Value" -> TextOk(f.name \o <<":">> \o Display(f.val))
      [] f.kind = "Struct" ->
            LET indent == repeat(Tab, indent_level)
                r == [i \in 1..Len(f.kids) |->
                        inner_as_blk_text(f.kids[i], indent_level + 1, FALSE)]
                failed == {i \in 1..Len(r) : ~r[i].ok}
                children == join([i \in 1..Len(r) |-> indent \o r[i].text], <<Newline>>)
                indent_closing == repeat(Tab, saturating_sub(indent_level, 1))
            IN IF failed # {}
               THEN r[CHOOSE i \in failed : \A j \in failed : i <= j]
               ELSE TextOk(IF is_root THEN children
                           ELSE f.name \o <<" ", "{", Newline>> \o children
                                \o <<Newline>> \o indent_closing \o <<"}">>)
      [] f.kind = "Merged" -> TextErr(MergedInBlkText)

as_blk_text(f) == inner_as_blk_text(f, 0, TRUE)

-----------------------------------------------------------------------------
(* pointer: blk/blk_structure.rs *)

\* str::split("/"): the pointer is a sequence of characters, "/" being one
RECURSIVE split(_, _)
split(s, sep) ==
    IF \E i \in 1..Len(s) : s[i] = sep
    THEN LET i == CHOOSE k \in 1..Len(s) :
                     s[k] = sep /\ \A j \in 1..(k - 1) : s[j] # sep
         IN <<SubSeq(s, 1, i - 1)>> \o split(SubSeq(s, i + 1, Len(s)), sep)
    ELSE <<s>>

FieldOk(field) == [ok |-> TRUE, field |-> field, err |-> ""]
FieldErr(e) == [ok |-> FALSE, field |-> new_root, err |-> e]

RECURSIVE pointer_internal(_, _)
pointer_internal(f, pointers) ==
    IF f.kind = "Value"
    THEN IF pointers # <<>>
         THEN FieldErr("Did not expect end but ended up in value")
         ELSE FieldOk(f)
    ELSE IF pointers # <<>>
         THEN LET search == Head(pointers)
                  hits == {i \in 1..Len(f.kids) : get_name(f.kids[i]) = search}
              IN IF hits # {}
                 THEN pointer_internal(f.kids[CHOOSE i \in hits : \A j \in hits : i <= j],
                                       Tail(pointers))
                 ELSE FieldErr("Substructure not in struct")
         ELSE FieldErr("Search ended before finding target")

pointer(f, ptr) == pointer_internal(f, split(ptr, "/"))

-----------------------------------------------------------------------------
(* Building a tree and running the tree operations on it *)

MaxNodes == 4       \* fields inserted below the root of doc

Float12Data == <<1, 2, 3, 4, 5, 6, 7, 8, 9, 10, 11, 12>>

\* what may be inserted: under the root, and under a nested Struct
DocRootFields ==
    { Value(NameX, BlkInt(1)), Value(NameX, BlkFloat(2)),
      Value(NameM, BlkFloat12(Float12Data)), Struct(NameS, <<>>) }
DocNestedFields ==
    { Value(NameX, BlkInt(1)), Value(NameX, BlkFloat(2)), Struct(NameS, <<>>) }

\* the pointers asked for: "x", "s", "s/x", "x/x", "s/s/x", "z"
Pointers ==
    { <<"x">>, <<"s">>, <<"s", "/", "x">>, <<"x", "/", "x">>,
      <<"s", "/", "s", "/", "x">>, <<"z">> }

RECURSIVE Nodes(_)
RECURSIVE SumNodes(_, _)
SumNodes(kids, n) == IF n = 0 THEN 0 ELSE SumNodes(kids, n - 1) + Nodes(kids[n])
Nodes(f) == 1 + SumNodes(f.kids, Len(f.kids))

\* the places an insert may address: the root, a child, a grandchild, each
\* reached through Struct fields
DocPaths(f) ==
    {<<>>}
    \cup {<<i>> : i \in 1..Len(f.kids)}
    \cup UNION {{<<i, j>> : j \in 1..Len(f.kids[i].kids)} :
                  i \in {k \in 1..Len(f.kids) : f.kids[k].kind = "Struct"}}

RECURSIVE NodeAt(_, _)
NodeAt(f, path) ==
    IF path = <<>> THEN f ELSE NodeAt(f.kids[Head(path)], Tail(path))

RECURSIVE ReplaceAt(_, _, _)
ReplaceAt(f, path, g) ==
    IF path = <<>> THEN g
    ELSE [f EXCEPT !.kids[Head(path)] = ReplaceAt(f.kids[Head(path)], Tail(path), g)]

NoRet == [op |-> "none"]

InitDoc ==
    /\ doc = new_root
    /\ ret = NoRet

\* target.insert_field(field), target being the field of doc at path
DocInsert(path, field) ==
    /\ Nodes(doc) <= MaxNodes
    /\ path \in DocPaths(doc)
    /\ field \in (IF path = <<>> THEN DocRootFields ELSE DocNestedFields)
    /\ Len(path) = 2 => field.kind = "Value"
    /\ LET target == NodeAt(doc, path)
           r == insert_field(target, field)
       IN /\ doc' = ReplaceAt(doc, path, r.field)
          /\ ret' = [op |-> "insert_field", ok |-> r.ok, before |-> target,
                     after |-> r.field, arg |-> field]
    /\ UNCHANGED <<treeVars, unpackerVars, parserVars, containerVars>>

\* doc.merge_fields()
MergeFields ==
    /\ doc' = merge_fields(doc)
    /\ ret' = [op |-> "merge_fields", before |-> doc]
    /\ UNCHANGED <<treeVars, unpackerVars, parserVars, containerVars>>

\* doc.as_serde_obj(should_override)
AsSerdeObj(should_override) ==
    /\ LET r == as_serde_obj(doc, should_override)
       IN /\ doc' = r.self
          /\ ret' = [op |-> "as_serde_obj", before |-> doc,
                     should_override |-> should_override, value |-> r.value]
    /\ UNCHANGED <<treeVars, unpackerVars, parserVars, containerVars>>

\* doc.as_blk_text()
AsBlkText ==
    /\ LET r == as_blk_text(doc)
       IN ret' = [op |-> "as_blk_text", ok |-> r.ok, text |-> r.text, err |-> r.err]
    /\ UNCHANGED <<doc, treeVars, unpackerVars, parserVars, containerVars>>

\* doc.pointer(ptr)
Pointer(ptr) ==
    /\ LET r == pointer(doc, ptr)
       IN ret' = [op |-> "pointer", ptr |-> ptr, ok |-> r.ok, field |-> r.field,
                  err |-> r.err]
    /\ UNCHANGED <<doc, treeVars, unpackerVars, parserVars, containerVars>>

NextDoc ==
    \/ \E path \in {<<>>} \cup {<<i>> : i \in 1..MaxNodes}
                   \cup {<<i, j>> : i, j \in 1..MaxNodes},
          field \in DocRootFields : DocInsert(path, field)
    \/ MergeFields
    \/ \E should_override \in BOOLEAN : AsSerdeObj(should_override)
    \/ AsBlkText
    \/ \E ptr \in Pointers : Pointer(ptr)

-----------------------------------------------------------------------------
(* Claims about merge_fields and the JSON emitter *)

\* the names of the children, each once, in the order of first occurrence
RECURSIVE FirstNames(_)
FirstNames(kids) ==
    IF kids = <<>> THEN <<>>
    ELSE LET rest == FirstNames(SubSeq(kids, 1, Len(kids) - 1))
             X == get_name(kids[Len(kids)])
         IN IF \E i \in 1..Len(rest) : rest[i] = X THEN rest ELSE Append(rest, X)

RECURSIVE NoSharedNames(_)
NoSharedNames(f) ==
    /\ f.kind = "Struct" =>
          \A i, j \in 1..Len(f.kids) :
              get_name(f.kids[i]) = get_name(f.kids[j]) => i = j
    /\ \A i \in 1..Len(f.kids) : NoSharedNames(f.kids[i])

\* C11: after merge_fields no two siblings of any Struct of the tree, at any
\* depth, share a name
C11_NoSharedNamesAfterMerge ==
    ret.op = "merge_fields" => NoSharedNames(doc)

\* C11 witness: merge_fields has run on a tree with same-named siblings both
\* under the root and inside a nested Struct
C11_Witness ==
    /\ ret.op = "merge_fields"
    /\ Len(Named(ret.before.kids, NameS)) >= 2
    /\ \E i \in 1..Len(ret.before.kids) :
          /\ ret.before.kids[i].kind = "Struct"
          /\ Len(Named(ret.before.kids[i].kids, NameX)) >= 2

\* a is b with every group of same-named siblings collapsed into one Merged at
\* the place of the group's first member, members in their order; a sibling
\* whose name occurs once stays a plain entry
RECURSIVE Collapsed(_, _)
Collapsed(b, a) ==
    IF b.kind = "Struct"
    THEN /\ a.kind = "Struct"
         /\ a.name = b.name
         /\ Len(a.kids) = Len(FirstNames(b.kids))
         /\ \A i \in 1..Len(FirstNames(b.kids)) :
               LET X == FirstNames(b.kids)[i]
                   group == Named(b.kids, X)
               IN IF Len(group) >= 2
                  THEN /\ a.kids[i].kind = "Merged"
                       /\ a.kids[i].name = X
                       /\ Len(a.kids[i].kids) = Len(group)
                       /\ \A k \in 1..Len(group) : Collapsed(group[k], a.kids[i].kids[k])
                  ELSE Collapsed(group[1], a.kids[i])
    ELSE a.kind = b.kind /\ a = b

\* the member of a JSON object under a key
Members(v, X) == SelectSeq(v.members, LAMBDA m : m.key = X)

\* v is the JSON of b: a Struct is an object that maps a repeated name to the
\* array of the values of its siblings, in their order, and a name that occurs
\* once to its value
RECURSIVE JsonOf(_, _)
JsonOf(b, v) ==
    CASE b.kind = "Value" -> v = value_json(b.val)
      [] b.kind = "Merged" ->
            /\ v.json = "Array"
            /\ Len(v.elems) = Len(b.kids)
            /\ \A k \in 1..Len(b.kids) : JsonOf(b.kids[k], v.elems[k])
      [] b.kind = "Struct" ->
            /\ v.json = "Object"
            /\ Len(v.members) = Len(FirstNames(b.kids))
            /\ \A i \in 1..Len(FirstNames(b.kids)) :
                  LET X == FirstNames(b.kids)[i]
                      group == Named(b.kids, X)
                  IN /\ Len(Members(v, X)) = 1
                     /\ IF Len(group) >= 2
                        THEN LET arr == Members(v, X)[1].value
                             IN /\ arr.json = "Array"
                                /\ Len(arr.elems) = Len(group)
                                /\ \A k \in 1..Len(group) : JsonOf(group[k], arr.elems[k])
                        ELSE JsonOf(group[1], Members(v, X)[1].value)

\* C12: merge_fields collapses every group of two or more same-named siblings
\* into one Merged at the first occurrence, in the siblings' order, and leaves a
\* name that occurs once plain; the JSON object maps a repeated name to the array
\* of its values in that order and a name that occurs once to its value
C12_DuplicateKeysMerged ==
    /\ ret.op = "merge_fields" => Collapsed(ret.before, doc)
    /\ ret.op = "as_serde_obj" => JsonOf(ret.before, ret.value)

\* C12 witness: the JSON of a root holding two fields named x, then a field
\* named m once, then a third x
C12_Witness ==
    /\ ret.op = "as_serde_obj"
    /\ Len(ret.before.kids) = 4
    /\ get_name(ret.before.kids[1]) = NameX
    /\ get_name(ret.before.kids[2]) = NameX
    /\ get_name(ret.before.kids[3]) = NameM
    /\ get_name(ret.before.kids[4]) = NameX
    /\ Members(ret.value, NameX)[1].value.json = "Array"
    /\ Len(Members(ret.value, NameX)[1].value.elems) = 3

\* the Float12 values directly under the root whose name occurs once
Float12Fields(b) ==
    {i \in 1..Len(b.kids) :
        /\ b.kids[i].kind = "Value"
        /\ b.kids[i].val.type = "Float12"
        /\ Len(Named(b.kids, get_name(b.kids[i]))) = 1}

\* v is an array of rows arrays of cols numbers, the floats in row-major order
Chunked(v, floats, rows, cols) ==
    /\ v.json = "Array"
    /\ Len(v.elems) = rows
    /\ \A r \in 1..rows :
          /\ v.elems[r].json = "Array"
          /\ Len(v.elems[r].elems) = cols
          /\ \A c \in 1..cols : v.elems[r].elems[c] = JNumber(floats[(r - 1) * cols + c])

\* C13: the JSON of a Float12 is a 3-element array of 3-element arrays, chunked
\* row-major from its 12 floats
C13_Float12ThreeByThree ==
    ret.op = "as_serde_obj" =>
        \A i \in Float12Fields(ret.before) :
            Chunked(Members(ret.value, get_name(ret.before.kids[i]))[1].value,
                    ret.before.kids[i].val.data, 3, 3)

\* C13 as the code has it: the JSON of a Float12 is a 4-element array of
\* 3-element arrays, the 12 floats in their order, three to a row
C13_Float12FourRowsOfThree ==
    ret.op = "as_serde_obj" =>
        \A i \in Float12Fields(ret.before) :
            Chunked(Members(ret.value, get_name(ret.before.kids[i]))[1].value,
                    ret.before.kids[i].val.data, 4, 3)

\* C13 witness: the JSON of a tree with a Float12 under the root
C13_Witness ==
    /\ ret.op = "as_serde_obj"
    /\ Float12Fields(ret.before) # {}

-----------------------------------------------------------------------------
(* Claims about the plaintext block emitter *)

\* the lines of a field that lies d Structs below the root: each starts with d
\* tabs; a Struct is its name and an opening brace, its children's lines, and a
\* closing brace on a line of its own
RECURSIVE ExpectedLines(_, _)
ChildrenLines(kids, d) ==
    Flatten([i \in 1..Len(kids) |-> ExpectedLines(kids[i], d)], Len(kids))
ExpectedLines(f, d) ==
    IF f.kind = "Value"
    THEN <<repeat(Tab, d) \o f.name \o <<":">> \o Display(f.val)>>
    ELSE <<repeat(Tab, d) \o f.name \o <<" ", "{">>>>
         \o (IF f.kids = <<>> THEN <<<<>>>> ELSE ChildrenLines(f.kids, d + 1))
         \o <<repeat(Tab, d) \o <<"}">>>>

RECURSIVE HasMerged(_)
HasMerged(f) ==
    \/ f.kind = "Merged"
    \/ f.kind = "Struct" /\ \E i \in 1..Len(f.kids) : HasMerged(f.kids[i])

RECURSIVE Depth(_)
Depth(f) ==
    IF f.kids = <<>> THEN 0
    ELSE 1 + (CHOOSE d \in {Depth(f.kids[i]) : i \in 1..Len(f.kids)} :
                 \A i \in 1..Len(f.kids) : Depth(f.kids[i]) <= d)

\* C14: as_blk_text emits the root's children without a wrapping name or brace
\* pair, a nested Struct as name, opening brace, children one per line and closing
\* brace, and starts every line of a field d Structs below the root with d tabs,
\* the closing brace of a Struct with as many tabs as its opening line
C14_BlkTextLayout ==
    (ret.op = "as_blk_text" /\ ret.ok) =>
        ret.text = join(ChildrenLines(doc.kids, 0), <<Newline>>)

\* C14 witness: the text of a tree with a Value inside a Struct inside a Struct
\* under the root, next to a Value under the root
C14_Witness ==
    /\ ret.op = "as_blk_text"
    /\ ret.ok
    /\ Depth(doc) = 3
    /\ \E i \in 1..Len(doc.kids) : doc.kids[i].kind = "Value"

\* C15: as_blk_text returns an error and no text exactly when a Merged field is
\* reachable from the root through Structs
C15_BlkTextFailsOnMerged ==
    ret.op = "as_blk_text" =>
        /\ ret.ok <=> ~HasMerged(doc)
        /\ ~ret.ok => ret.text = <<>>

\* C15 witness: as_blk_text has failed on a tree whose Merged field lies inside a
\* nested Struct, next to fields that render
C15_Witness ==
    /\ ret.op = "as_blk_text"
    /\ ~ret.ok
    /\ \A i \in 1..Len(doc.kids) : doc.kids[i].kind # "Merged"
    /\ \E i \in 1..Len(doc.kids) : doc.kids[i].kind = "Value"

-----------------------------------------------------------------------------
(* Claims about insert_field and pointer *)

RECURSIVE ValuesChildless(_)
ValuesChildless(f) ==
    /\ f.kind = "Value" => f.kids = <<>>
    /\ \A i \in 1..Len(f.kids) : ValuesChildless(f.kids[i])

\* C16: insert_field on a Struct appends the field as the last child and leaves
\* the earlier children and the name as they were; on a Value it fails and leaves
\* the Value as it was; no Value of the tree ever has children
C16_InsertAppendsOrFails ==
    /\ ValuesChildless(doc)
    /\ ret.op = "insert_field" =>
          /\ ret.before.kind = "Struct" =>
                /\ ret.ok
                /\ ret.after.kind = "Struct"
                /\ ret.after.name = ret.before.name
                /\ Len(ret.after.kids) = Len(ret.before.kids) + 1
                /\ ret.after.kids[Len(ret.after.kids)] = ret.arg
                /\ \A i \in 1..Len(ret.before.kids) :
                      ret.after.kids[i] = ret.before.kids[i]
          /\ ret.before.kind = "Value" =>
                /\ ~ret.ok
                /\ ret.after = ret.before

\* C16 witness: an insert into a Struct that has children already, in a tree in
\* which an insert into a Value was refused before
C16_Witness ==
    /\ ret.op = "insert_field"
    /\ ret.before.kind = "Struct"
    /\ Len(ret.before.kids) >= 2
    /\ \E i \in 1..Len(doc.kids) : doc.kids[i].kind = "Value"

\* the descent the pointer is meant to make: by exact name, first match wins,
\* the field reached after the last segment is returned, Value or Struct alike
RECURSIVE Descend(_, _)
Descend(f, segments) ==
    IF segments = <<>> THEN FieldOk(f)
    ELSE IF f.kind = "Value" THEN FieldErr("NoSuchField")
    ELSE LET hits == {i \in 1..Len(f.kids) : get_name(f.kids[i]) = Head(segments)}
         IN IF hits = {} THEN FieldErr("NoSuchField")
            ELSE Descend(f.kids[CHOOSE i \in hits : \A j \in hits : i <= j],
                         Tail(segments))

\* C17: pointer descends by exact name, first match wins, returns the field
\* reached after the last segment whether a Value or a Struct, and fails only
\* when a segment matches no child or a Value is entered with segments left
C17_PointerReturnsReachedField ==
    ret.op = "pointer" =>
        LET expected == Descend(doc, split(ret.ptr, "/"))
        IN /\ ret.ok = expected.ok
           /\ ret.ok => ret.field = expected.field

-----------------------------------------------------------------------------
(* The binary BLK parser: binary/parser.rs, binary/nm_file.rs,                *)
(* binary/blk_block_hierarchy.rs                                             *)

\* the name "root" and the characters "a" and "b", as bytes
RootName == <<114, 111, 111, 116>>
CharA == <<97>>
CharB == <<98>>

\* &file[ptr..]
From(file, ptr) == SubSeq(file, ptr + 1, Len(file))

\* uleb128: (offset, value), or Truncated when the slice ends before a byte with
\* the high bit clear
RECURSIVE uleb128(_)
uleb128(slice) ==
    IF slice = <<>> THEN [ok |-> FALSE, offset |-> 0, value |-> 0, err |-> "Truncated"]
    ELSE IF Head(slice) < 128
         THEN [ok |-> TRUE, offset |-> 1, value |-> Head(slice), err |-> ""]
         ELSE LET r == uleb128(Tail(slice))
              IN IF r.ok
                 THEN [ok |-> TRUE, offset |-> r.offset + 1,
                       value |-> (Head(slice) - 128) + 128 * r.value, err |-> ""]
                 ELSE r

\* idx_file_offset: file.get(ptr..ptr + offset)
idx_file_offset(file, ptr, offset) ==
    IF ptr + offset <= Len(file)
    THEN [ok |-> TRUE, slice |-> SubSeq(file, ptr + 1, ptr + offset), err |-> ""]
    ELSE [ok |-> FALSE, slice |-> <<>>, err |-> "DataRegionBoundsExceeded"]

\* parse_name_section: at every NUL the bytes from start up to the NUL are a
\* name, and start moves to the NUL
RECURSIVE parse_name_section_from(_, _, _)
parse_name_section_from(file, start, i) ==
    IF i >= Len(file) THEN <<>>
    ELSE IF file[i + 1] = 0
         THEN <<SubSeq(file, start + 1, i)>> \o parse_name_section_from(file, i, i + 1)
         ELSE parse_name_section_from(file, start, i + 1)

parse_name_section(file) == parse_name_section_from(file, 0, 0)

\* what a call of nm_file.rs comes to: the names, or an abort (a panic)
Names(names) == [status |-> "ok", err |-> "", names |-> names]
NamesAbort(e) == [status |-> "abort", err |-> e, names |-> <<>>]

\* parse_slim_nm(name_map): both ULEB128 reads are unwrapped, the names region
\* is a slice index, and a names_count other than the number of names panics
parse_slim_nm(name_map) ==
    LET names_count == uleb128(name_map)
        names_data_size == uleb128(From(name_map, names_count.offset))
        nm_ptr == names_count.offset + names_data_size.offset
        names == parse_name_section(SubSeq(name_map, nm_ptr + 1,
                                           nm_ptr + names_data_size.value))
    IN IF ~names_count.ok \/ ~names_data_size.ok
       THEN NamesAbort("called Result::unwrap() on an Err value")
       ELSE IF nm_ptr + names_data_size.value > Len(name_map)
       THEN NamesAbort("range end index out of range for slice")
       ELSE IF names_count.value # Len(names)
       THEN NamesAbort("Should be equal")
       ELSE Names(names)

\* little-endian number of a byte sequence
RECURSIVE from_le_bytes(_)
from_le_bytes(bytes) ==
    IF bytes = <<>> THEN 0 ELSE Head(bytes) + 256 * from_le_bytes(Tail(bytes))

None == [some |-> FALSE, val |-> [type |-> "", data |-> <<>>]]
Some(v) == [some |-> TRUE, val |-> v]

\* the 32-bit words of the params blob from an offset on
Words(blob, offset, n) ==
    [k \in 1..n |-> from_le_bytes(SubSeq(blob, offset + 4 * (k - 1) + 1, offset + 4 * k))]

\* BlkType::from_raw_param_info: the value of a params-info record
from_raw_param_info(type_id, data, blob, names) ==
    LET offset == from_le_bytes(data)
        at(type, n) == IF offset + 4 * n <= Len(blob)
                       THEN Some([type |-> type, data |-> Words(blob, offset, n)])
                       ELSE None
        nul == {i \in (offset + 1)..Len(blob) : blob[i] = 0}
    IN CASE type_id = 1 ->
              IF nul = {} THEN None
              ELSE Some([type |-> "Str",
                         data |-> SubSeq(blob, offset + 1,
                                         (CHOOSE i \in nul : \A j \in nul : i <= j) - 1)])
         [] type_id = 2 -> Some([type |-> "Int", data |-> <<from_le_bytes(data)>>])
         [] type_id = 3 -> Some([type |-> "Float", data |-> <<from_le_bytes(data)>>])
         [] type_id = 4 -> at("Float2", 2)
         [] type_id = 5 -> at("Float3", 3)
         [] type_id = 6 -> at("Float4", 4)
         [] type_id = 7 -> at("Int2", 2)
         [] type_id = 8 -> at("Int3", 3)
         [] type_id = 9 -> Some([type |-> "Bool", data |-> <<IF from_le_bytes(data) # 0 THEN 1 ELSE 0>>])
         [] type_id = 10 -> Some([type |-> "Color", data |-> data])
         [] type_id = 11 -> at("Float12", 12)
         [] type_id = 12 -> at("Long", 2)
         [] OTHER -> None

\* what parse_blk comes to: a tree, an error result, or an abort (a panic or a
\* stack overflow); blocks is the flat table it read, records the number of
\* params-info records it decoded
Parsed(tree, names, blocks, records, blocks_count) ==
    [status |-> "ok", err |-> "", tree |-> tree, names |-> names, blocks |-> blocks,
     records |-> records, blocks_count |-> blocks_count]
ParseErr(e) ==
    [status |-> "err", err |-> e, tree |-> Struct(<<>>, <<>>), names |-> <<>>,
     blocks |-> <<>>, records |-> 0, blocks_count |-> 0]
Abort(e) ==
    [status |-> "abort", err |-> e, tree |-> Struct(<<>>, <<>>), names |-> <<>>,
     blocks |-> <<>>, records |-> 0, blocks_count |-> 0]

\* the loop over the params-info chunks: the (name_id, field) pairs, or the
\* outcome of the first chunk that fails
RECURSIVE read_params(_, _, _, _)
read_params(params_info, i, names, blob) ==
    IF 8 * i > Len(params_info) THEN [status |-> "ok", err |-> "", results |-> <<>>]
    ELSE LET chunk == SubSeq(params_info, 8 * (i - 1) + 1, 8 * i)
             name_id == from_le_bytes(SubSeq(chunk, 1, 3))
             type_id == chunk[4]
             data == SubSeq(chunk, 5, 8)
             parsed == from_raw_param_info(type_id, data, blob, names)
         IN IF name_id >= Len(names)
            THEN [status |-> "abort", err |-> "index out of bounds: names[name_id]",
                  results |-> <<>>]
            ELSE IF ~parsed.some
            THEN [status |-> "err", err |-> "BadBlkValue", results |-> <<>>]
            ELSE LET rest == read_params(params_info, i + 1, names, blob)
                 IN IF rest.status # "ok" THEN rest
                    ELSE [rest EXCEPT !.results =
                            <<[name_id |-> name_id,
                               field |-> Value(names[name_id + 1], parsed.val)]>> \o @]

\* block_id_to_name: 0 is "root", any other id the name before it in the names
block_id_to_name(id, names) ==
    IF id = 0 THEN RootName ELSE names[id]

\* the loop "for _ in 0..blocks_count" over the block-info table: the records
\* (name, param_count, blocks_count, first_block_id), or the abort of the first
\* record that cannot be read (uleb128(..).unwrap(), names[id - 1])
RECURSIVE read_blocks(_, _, _, _)
read_blocks(block_info, ptr, n, names) ==
    IF n = 0 THEN [status |-> "ok", err |-> "", blocks |-> <<>>]
    ELSE LET a == uleb128(From(block_info, ptr))
             b == uleb128(From(block_info, ptr + a.offset))
             c == uleb128(From(block_info, ptr + a.offset + b.offset))
             d == uleb128(From(block_info, ptr + a.offset + b.offset + c.offset))
             unwrap == [status |-> "abort",
                        err |-> "called Result::unwrap() on an Err value",
                        blocks |-> <<>>]
         IN IF ~a.ok THEN unwrap
            ELSE IF ~b.ok THEN unwrap
            ELSE IF ~c.ok THEN unwrap
            ELSE IF c.value > 0 /\ ~d.ok THEN unwrap
            ELSE IF a.value > Len(names)
            THEN [status |-> "abort", err |-> "index out of bounds: names[id - 1]",
                  blocks |-> <<>>]
            ELSE LET next == ptr + a.offset + b.offset + c.offset
                             + (IF c.value > 0 THEN d.offset ELSE 0)
                     rest == read_blocks(block_info, next, n - 1, names)
                 IN IF rest.status # "ok" THEN rest
                    ELSE [rest EXCEPT !.blocks =
                            <<[name |-> block_id_to_name(a.value, names),
                               name_id |-> a.value,
                               param_count |-> b.value,
                               blocks_count |-> c.value,
                               has_first |-> c.value > 0,
                               first_block_id |-> IF c.value > 0 THEN d.value ELSE 0]>>
                            \o @]

\* the loop with ptr moved one record too far after every block: a record is
\* skipped between two consecutive blocks
RECURSIVE flat_map_skipping(_, _, _)
flat_map_skipping(blocks, ptr, results) ==
    IF blocks = <<>> THEN [status |-> "ok", err |-> "", flat |-> <<>>]
    ELSE LET block == Head(blocks)
         IN IF ptr + block.param_count > Len(results)
            THEN [status |-> "abort", err |-> "index out of bounds: results[i]",
                  flat |-> <<>>]
            ELSE LET rest == flat_map_skipping(Tail(blocks), ptr + block.param_count + 1,
                                               results)
                 IN IF rest.status # "ok" THEN rest
                    ELSE [rest EXCEPT !.flat =
                            <<[name |-> block.name,
                               fields |-> [i \in 1..block.param_count |->
                                             results[ptr + i].field],
                               blocks |-> block.blocks_count,
                               offset |-> block.first_block_id]>> \o @]

\* the loop that builds flat_map: block k takes the next param_count(k) results;
\* results[i] past the end aborts
RECURSIVE flat_map(_, _, _)
flat_map(blocks, ptr, results) ==
    IF blocks = <<>> THEN [status |-> "ok", err |-> "", flat |-> <<>>]
    ELSE LET block == Head(blocks)
         IN IF ptr + block.param_count > Len(results)
            THEN [status |-> "abort", err |-> "index out of bounds: results[i]",
                  flat |-> <<>>]
            ELSE LET rest == flat_map(Tail(blocks), ptr + block.param_count, results)
                 IN IF rest.status # "ok" THEN rest
                    ELSE [rest EXCEPT !.flat =
                            <<[name |-> block.name,
                               fields |-> [i \in 1..block.param_count |->
                                             results[ptr + i].field],
                               blocks |-> block.blocks_count,
                               offset |-> block.first_block_id]>> \o @]

\* FlatBlock::location_range: offset..(offset + blocks)
location_range(parent) == [start |-> parent.offset, end |-> parent.offset + parent.blocks]

\* from_flat_blocks_with_parent; depth counts the calls on the stack: a descent
\* deeper than the table is long passes through one block twice and never ends
RECURSIVE from_flat_blocks_with_parent(_, _, _)
from_flat_blocks_with_parent(flat_blocks, parent, depth) ==
    LET range == location_range(parent)
        r == [i \in 1..parent.blocks |->
                from_flat_blocks_with_parent(flat_blocks, flat_blocks[range.start + i],
                                             depth + 1)]
        failed == {i \in 1..parent.blocks : r[i].status # "ok"}
    IN IF depth > Len(flat_blocks)
       THEN [status |-> "abort", err |-> "stack overflow", tree |-> Struct(<<>>, <<>>)]
       ELSE IF range.end > Len(flat_blocks)
       THEN [status |-> "abort", err |-> "range end index out of range for slice",
             tree |-> Struct(<<>>, <<>>)]
       ELSE IF failed # {}
       THEN r[CHOOSE i \in failed : \A j \in failed : i <= j]
       ELSE [status |-> "ok", err |-> "",
             tree |-> Struct(parent.name, parent.fields \o [i \in 1..parent.blocks |-> r[i].tree])]

\* from_flat_blocks: flat_blocks[0] is the root
from_flat_blocks(flat_blocks) ==
    IF flat_blocks = <<>>
    THEN [status |-> "abort", err |-> "index out of bounds: flat_blocks[0]",
          tree |-> Struct(<<>>, <<>>)]
    ELSE from_flat_blocks_with_parent(flat_blocks, flat_blocks[1], 1)

\* parse_blk(file, slim, shared_name_map)
parse_blk(file, slim, shared_name_map) ==
    LET names_count == uleb128(file)
        names_data_size == uleb128(From(file, names_count.offset))
        names_region == idx_file_offset(file, names_count.offset + names_data_size.offset,
                                        names_data_size.value)
        names == IF slim THEN shared_name_map.parsed
                 ELSE parse_name_section(names_region.slice)
        ptr1 == IF slim THEN names_count.offset
                ELSE names_count.offset + names_data_size.offset + names_data_size.value
        blocks_count == uleb128(From(file, ptr1))
        params_count == uleb128(From(file, ptr1 + blocks_count.offset))
        ptr2 == ptr1 + blocks_count.offset + params_count.offset
        params_data_size == uleb128(From(file, ptr2))
        ptr3 == ptr2 + params_data_size.offset
        params_data == idx_file_offset(file, ptr3, params_data_size.value)
        ptr4 == ptr3 + params_data_size.value
        params_info == idx_file_offset(file, ptr4, params_count.value * 8)
        block_info == From(file, ptr4 + params_count.value * 8)
        results == read_params(params_info.slice, 1, names, params_data.slice)
        blocks == read_blocks(block_info, 0, blocks_count.value, names)
        flat == flat_map(blocks.blocks, 0, results.results)
        out == from_flat_blocks(flat.flat)
    IN IF ~names_count.ok THEN ParseErr(names_count.err)
       ELSE IF ~slim /\ ~names_data_size.ok THEN ParseErr(names_data_size.err)
       ELSE IF ~slim /\ ~names_region.ok THEN ParseErr(names_region.err)
       ELSE IF ~blocks_count.ok THEN ParseErr(blocks_count.err)
       ELSE IF ~params_count.ok THEN ParseErr(params_count.err)
       ELSE IF ~params_data_size.ok THEN ParseErr(params_data_size.err)
       ELSE IF ~params_data.ok THEN ParseErr(params_data.err)
       ELSE IF ~params_info.ok THEN ParseErr(params_info.err)
       ELSE IF results.status = "abort" THEN Abort(results.err)
       ELSE IF results.status = "err" THEN ParseErr(results.err)
       ELSE IF blocks.status # "ok" THEN Abort(blocks.err)
       ELSE IF flat.status # "ok" THEN Abort(flat.err)
       ELSE IF out.status # "ok" THEN Abort(out.err)
       ELSE Parsed(out.tree, names, blocks.blocks, Len(results.results),
                   blocks_count.value)

NoImage == [given |-> FALSE]
NotParsed == [status |-> "none"]
NoNames == [op |-> "none"]

InitImage ==
    /\ image = NoImage
    /\ parseOut = NotParsed
    /\ nmOut = NoNames

-----------------------------------------------------------------------------
(* BLK payloads and the calls of parse_blk *)

MaxBlocks == 3      \* records written to the block-info table

\* the writer of a payload: ULEB128, little-endian fields, NUL-terminated names
RECURSIVE write_uleb(_)
write_uleb(n) ==
    IF n < 128 THEN <<n>> ELSE <<128 + (n % 128)>> \o write_uleb(n \div 128)

to_le_bytes(n, width) == [k \in 1..width |-> (n \div (256 ^ (k - 1))) % 256]

NameBytes(names) ==
    Flatten([i \in 1..Len(names) |-> names[i] \o <<0>>], Len(names))

Param(name_id, type_id, payload) ==
    [name_id |-> name_id, type_id |-> type_id, payload |-> payload]
ParamBytes(p) == to_le_bytes(p.name_id, 3) \o <<p.type_id>> \o to_le_bytes(p.payload, 4)

Block(name_id, param_count, child_count, first_child) ==
    [name_id |-> name_id, param_count |-> param_count, child_count |-> child_count,
     first_child |-> first_child]
BlockBytes(b) ==
    write_uleb(b.name_id) \o write_uleb(b.param_count) \o write_uleb(b.child_count)
    \o (IF b.child_count > 0 THEN write_uleb(b.first_child) ELSE <<>>)

\* the payload: names_count, (fat) names_data_size and names, blocks_count,
\* params_count, params_data_size and an empty params blob, params-info, block-info
Payload(slim, names_count, names, params, blocks, blocks_count) ==
    write_uleb(names_count)
    \o (IF slim THEN <<>>
        ELSE write_uleb(Len(NameBytes(names))) \o NameBytes(names))
    \o write_uleb(blocks_count)
    \o write_uleb(Len(params))
    \o write_uleb(0)
    \o Flatten([i \in 1..Len(params) |-> ParamBytes(params[i])], Len(params))
    \o Flatten([i \in 1..Len(blocks) |-> BlockBytes(blocks[i])], Len(blocks))

\* the name map of the archive, shared by the slim payloads
SharedNameMap ==
    [binary |-> NameBytes(<<CharA, CharB>>),
     parsed |-> parse_name_section(NameBytes(<<CharA, CharB>>))]

\* the name sections of the payloads, with the names_count written before them:
\* a fat payload carries its names, with their number or another one as
\* names_count; a slim payload carries the number of names of the name map
NameLists == { <<CharA>>, <<CharA, CharB>> }
Headers ==
    { [slim |-> FALSE, names_count |-> Len(names), names |-> names] :
        names \in NameLists }
    \cup { [slim |-> FALSE, names_count |-> 3, names |-> <<CharA, CharB>>],
           [slim |-> TRUE, names_count |-> 2, names |-> <<CharA, CharB>>] }
ParamLists ==
    { <<>>, <<Param(0, 2, 42)>>, <<Param(0, 2, 42), Param(1, 2, 7)>>,
      <<Param(0, 2, 42), Param(1, 2, 7), Param(0, 2, 9)>>,
      <<Param(0, 99, 0)>> }
BlockRecords ==
    { Block(name_id, param_count, child[1], child[2]) :
        name_id \in {0, 1}, param_count \in {0, 1, 2},
        child \in {<<0, 0>>, <<1, 0>>, <<1, 1>>, <<1, 2>>, <<2, 1>>} }
\* blocks without children
LeafRecords ==
    { Block(name_id, param_count, 0, 0) : name_id \in {1, 2}, param_count \in {0, 1} }
\* the records a table may hold at position k: any record in the first two
\* positions, a leaf from there on
RecordsAt(k) == IF k <= 2 THEN BlockRecords ELSE LeafRecords

\* the name sections handed to nm_file.rs: up to two NUL-terminated names
NameSections ==
    UNION {[1..n -> {CharA, CharB}] : n \in 0..2}

\* the name map of a slim archive: names_count, names_data_size and the names,
\* with the last cut bytes missing
NameMapBytes(names_count, names, cut) ==
    LET whole == write_uleb(names_count) \o write_uleb(Len(NameBytes(names)))
                 \o NameBytes(names)
    IN SubSeq(whole, 1, Len(whole) - cut)

\* parse_name_section on a section of NUL-terminated names
ParseNameSection(names) ==
    /\ ~image.given
    /\ nmOut.op = "none"
    /\ nmOut' = [op |-> "parse_name_section", written |-> names, declared |-> Len(names),
                 cut |-> 0, out |-> Names(parse_name_section(NameBytes(names)))]
    /\ UNCHANGED <<image, parseOut, treeVars, unpackerVars, docVars, containerVars>>

\* parse_slim_nm on a name map that declares names_count names
ParseSlimNm(names_count, names, cut) ==
    /\ ~image.given
    /\ nmOut.op = "none"
    /\ nmOut' = [op |-> "parse_slim_nm", written |-> names, declared |-> names_count,
                 cut |-> cut, out |-> parse_slim_nm(NameMapBytes(names_count, names, cut))]
    /\ UNCHANGED <<image, parseOut, treeVars, unpackerVars, docVars, containerVars>>

\* a payload is laid out: its dialect, names and params-info records
NewImage(header, params) ==
    /\ ~image.given
    /\ nmOut.op = "none"
    /\ image' = [given |-> TRUE, slim |-> header.slim, names_count |-> header.names_count,
                 names |-> header.names,
                 params |-> params, blocks |-> <<>>, blocks_count |-> 0,
                 file |-> <<>>]
    /\ UNCHANGED <<parseOut, nmOut, treeVars, unpackerVars, docVars, containerVars>>

\* a record is written to the block-info table
AddBlock(block) ==
    /\ image.given
    /\ parseOut.status = "none"
    /\ Len(image.blocks) < MaxBlocks
    /\ block \in RecordsAt(Len(image.blocks) + 1)
    /\ image' = [image EXCEPT !.blocks = Append(@, block)]
    /\ UNCHANGED <<parseOut, nmOut, treeVars, unpackerVars, docVars, containerVars>>

\* parse_blk(file, slim, shared_name_map) on the payload, written with the
\* number of its block records, one more, or none as blocks_count
ParseBlk(blocks_count) ==
    /\ image.given
    /\ parseOut.status = "none"
    /\ blocks_count \in {0, Len(image.blocks), Len(image.blocks) + 1}
    /\ LET file == Payload(image.slim, image.names_count, image.names, image.params,
                           image.blocks, blocks_count)
       IN /\ image' = [image EXCEPT !.blocks_count = blocks_count, !.file = file]
          /\ parseOut' = parse_blk(file, image.slim, SharedNameMap)
    /\ UNCHANGED <<nmOut, treeVars, unpackerVars, docVars, containerVars>>

NextParse ==
    \/ \E names \in NameSections : ParseNameSection(names)
    \/ \E names_count \in 0..3, names \in NameSections, cut \in {0, 1} :
          ParseSlimNm(names_count, names, cut)
    \/ \E header \in Headers, params \in ParamLists : NewImage(header, params)
    \/ \E block \in BlockRecords \cup LeafRecords : AddBlock(block)
    \/ \E blocks_count \in 0..(MaxBlocks + 1) : ParseBlk(blocks_count)

-----------------------------------------------------------------------------
(* Claims about parse_blk *)

\* C18: every tree parse_blk returns has as its root a Struct named "root"
C18_RootNamedRoot ==
    parseOut.status = "ok" =>
        /\ parseOut.tree.kind = "Struct"
        /\ parseOut.tree.name = RootName

\* every params-info record of the payload has a known type tag and a name
ParamsDecodable ==
    \A i \in 1..Len(image.params) :
        /\ image.params[i].type_id \in 1..12
        /\ image.params[i].name_id < Len(parseOut.names)

\* C19: parse_blk on a payload whose blocks_count is 0 returns the error
\* EmptyBlockTable: no tree, no abort
C19_EmptyBlockTable ==
    (parseOut.status # "none" /\ image.blocks_count = 0) =>
        /\ parseOut.status = "err"
        /\ \/ parseOut.err = "EmptyBlockTable"
           \/ \E i \in 1..Len(image.params) : image.params[i].type_id \notin 1..12

RECURSIVE SumOf(_, _)
SumOf(blocks, field) ==
    IF blocks = <<>> THEN 0 ELSE Head(blocks)[field] + SumOf(Tail(blocks), field)

RECURSIVE CountKind(_, _)
RECURSIVE CountKindIn(_, _, _)
CountKindIn(kids, n, kind) ==
    IF n = 0 THEN 0 ELSE CountKindIn(kids, n - 1, kind) + CountKind(kids[n], kind)
CountKind(f, kind) ==
    (IF f.kind = kind THEN 1 ELSE 0) + CountKindIn(f.kids, Len(f.kids), kind)

\* C20: for every payload parse_blk accepts, the param_count values of the blocks
\* sum to the number of params-info records and the child_block_count values plus
\* one to blocks_count, so the tree holds every parameter and every block once
C20_BlockTreeCovers ==
    parseOut.status = "ok" =>
        /\ SumOf(parseOut.blocks, "param_count") = parseOut.records
        /\ SumOf(parseOut.blocks, "blocks_count") + 1 = parseOut.blocks_count
        /\ CountKind(parseOut.tree, "Value") = parseOut.records
        /\ CountKind(parseOut.tree, "Struct") = parseOut.blocks_count

\* the block records parse_blk reads: the first blocks_count of the table
ReadRecords ==
    SubSeq(image.blocks, 1,
           IF image.blocks_count < Len(image.blocks) THEN image.blocks_count
           ELSE Len(image.blocks))

\* the number of params-info records owned by the blocks before block k
ParamsBefore(k) == SumOf(SubSeq(image.blocks, 1, k - 1), "param_count")

\* the field of a params-info record of the payload: an Int under its name
ExpectedValue(p) ==
    Value(parseOut.names[p.name_id + 1], [type |-> "Int", data |-> <<p.payload>>])

\* the tree of block k of the payload: its params-info records in their order,
\* then the trees of the blocks of its child range in their order
RECURSIVE ExpectedBlock(_)
ExpectedBlock(k) ==
    LET b == image.blocks[k]
    IN Struct(IF b.name_id = 0 THEN RootName ELSE parseOut.names[b.name_id],
              [i \in 1..b.param_count |-> ExpectedValue(image.params[ParamsBefore(k) + i])]
              \o [i \in 1..b.child_count |-> ExpectedBlock(b.first_child + i)])

\* C21: in the tree parse_blk returns, block k holds the param_count(k)
\* params-info records that follow those of the blocks before it, in their
\* order, and after them the trees of the blocks first_child ..
\* first_child + child_count - 1, in table order
C21_TreeFollowsTables ==
    parseOut.status = "ok" => parseOut.tree = ExpectedBlock(1)

\* C21 witness: an accepted table of three blocks whose root owns the first two
\* of three parameters and has two children under different names, the first
\* of which owns the third parameter
C21_Witness ==
    /\ parseOut.status = "ok"
    /\ image.blocks_count = 3
    /\ Len(image.params) = 3
    /\ image.blocks[1].param_count = 2
    /\ image.blocks[1].child_count = 2
    /\ image.blocks[1].first_child = 1
    /\ image.blocks[2].param_count = 1
    /\ Len(parseOut.tree.kids) = 4
    /\ parseOut.tree.kids[1].val.data = <<42>>
    /\ parseOut.tree.kids[2].val.data = <<7>>
    /\ parseOut.tree.kids[3].kids = <<ExpectedValue(image.params[3])>>
    /\ parseOut.tree.kids[3].name # parseOut.tree.kids[4].name

\* C22: a names_count other than the number of names found is not fatal:
\* parse_slim_nm on a whole name map returns the names of its section whatever
\* names_count it declares, and parse_blk on a fat payload returns what it
\* returns for the payload that declares the number of its names
C22_NameCountMismatchNotFatal ==
    /\ (nmOut.op = "parse_slim_nm" /\ nmOut.cut = 0) =>
          /\ nmOut.out.status = "ok"
          /\ nmOut.out.names = parse_name_section(NameBytes(nmOut.written))
    /\ (parseOut.status # "none" /\ ~image.slim) =>
          parseOut = parse_blk(Payload(FALSE, Len(image.names), image.names,
                                       image.params, image.blocks, image.blocks_count),
                               FALSE, SharedNameMap)

\* C23: parse_name_section on a section of k NUL-terminated names returns those
\* k names in their order, and no name it returns holds a NUL
C23_NameSectionSplitsOnNul ==
    nmOut.op = "parse_name_section" =>
        /\ nmOut.out.names = nmOut.written
        /\ \A i \in 1..Len(nmOut.out.names) :
              \A j \in 1..Len(nmOut.out.names[i]) : nmOut.out.names[i][j] # 0

\* the number of names parse_blk works with
NamesGiven == IF image.slim THEN Len(SharedNameMap.parsed) ELSE Len(image.names)

\* the payload is malformed: a params-info record with an unknown type tag or a
\* name_id not below the number of names, a block name_id beyond the names, a
\* table shorter than blocks_count, more parameters owned than there are
\* records, or a child range that passes the end of the table
Malformed ==
    \/ \E i \in 1..Len(image.params) : image.params[i].type_id \notin 1..12
    \/ \E i \in 1..Len(image.params) : image.params[i].name_id >= NamesGiven
    \/ \E k \in 1..Len(ReadRecords) : ReadRecords[k].name_id > NamesGiven
    \/ image.blocks_count > Len(image.blocks)
    \/ SumOf(ReadRecords, "param_count") > Len(image.params)
    \/ \E k \in 1..Len(ReadRecords) :
          /\ ReadRecords[k].child_count > 0
          /\ ReadRecords[k].first_child + ReadRecords[k].child_count > image.blocks_count

\* C25: parse_blk never aborts, and a malformed payload comes back as an error
\* result; stated for the payloads that announce a block, a blocks_count of 0
\* being the case of C19
C25_MalformedIsError ==
    (parseOut.status # "none" /\ image.blocks_count > 0) =>
        /\ parseOut.status # "abort"
        /\ Malformed => parseOut.status = "err"

\* C26: from_flat_blocks returns for every block table parse_blk hands it: the
\* descent never passes through a block a second time
C26_HierarchyTerminates ==
    parseOut.status # "none" => parseOut.err # "stack overflow"

-----------------------------------------------------------------------------
(* The VROMF outer decoder: vromf/binary_container.rs                        *)

MaxBody == 3        \* bytes of an archive after its fixed prefix

\* the closure that never fails: the bytes past the end of the file read as 0
idx_file_offset_padding(file, ptr, offset) ==
    [ok |-> TRUE,
     slice |-> [i \in 1..offset |-> IF ptr + i <= Len(file) THEN file[ptr + i] ELSE 0],
     err |-> ""]

\* the closure idx_file_offset of decode_bin_vromf: file.get(ptr..ptr + offset)
idx_file_offset_vromf(file, ptr, offset) ==
    IF ptr + offset <= Len(file)
    THEN [ok |-> TRUE, slice |-> SubSeq(file, ptr + 1, ptr + offset), err |-> ""]
    ELSE [ok |-> FALSE, slice |-> <<>>, err |-> "Indexing buffer"]

\* HeaderType::try_from: the magic numbers are stood for by the codes 1 and 2
header_type_try_from(word) ==
    CASE word = 1 -> [ok |-> TRUE, val |-> "Simple"]
      [] word = 2 -> [ok |-> TRUE, val |-> "Extended"]
      [] OTHER -> [ok |-> FALSE, val |-> "BadMagic"]
is_extended(header_type) == header_type = "Extended"

\* PlatformType::try_from: the platform ids are stood for by the codes 1 to 3
platform_type_try_from(word) ==
    IF word \in 1..3 THEN [ok |-> TRUE, val |-> word]
    ELSE [ok |-> FALSE, val |-> "UnknownPlatform"]

\* pack_type_from_aligned: packed = (extended_header_size << 6) | pack_type_bits
pack_type_from_aligned(header_packed) ==
    LET bits == header_packed % 64
        extended_header_size == header_packed \div 64
    IN CASE bits = 0 -> [ok |-> TRUE, pack_type |-> "Plain",
                         extended_header_size |-> extended_header_size]
         [] bits = 1 -> [ok |-> TRUE, pack_type |-> "ZSTD",
                         extended_header_size |-> extended_header_size]
         [] bits = 2 -> [ok |-> TRUE, pack_type |-> "Obfuscated",
                         extended_header_size |-> extended_header_size]
         [] bits = 3 -> [ok |-> TRUE, pack_type |-> "ObfuscatedAndZstd",
                         extended_header_size |-> extended_header_size]
         [] OTHER -> [ok |-> FALSE, pack_type |-> "UnknownPacking",
                      extended_header_size |-> 0]
is_compressed(pack_type) == pack_type \in {"ZSTD", "ObfuscatedAndZstd"}
is_obfuscated(pack_type) == pack_type \in {"Obfuscated", "ObfuscatedAndZstd"}

\* what decode_bin_vromf comes to: the range it located, the steps it ran on a
\* copy of it (deobfuscate, zstd::decode_all) and the metadata, or an error
Decoded(inner_data, steps, metadata) ==
    [status |-> "ok", err |-> "", inner_data |-> inner_data, steps |-> steps,
     metadata |-> metadata]
DecodeErr(e) ==
    [status |-> "err", err |-> e, inner_data |-> <<>>, steps |-> <<>>,
     metadata |-> <<>>]

\* decode_bin_vromf(file); frame_ok is whether zstd::decode_all accepts the
\* deobfuscated payload
decode_bin_vromf(file, frame_ok) ==
    LET header_type_raw == idx_file_offset_vromf(file, 0, 4)
        header_type == header_type_try_from(from_le_bytes(header_type_raw.slice))
        platform_raw == idx_file_offset_vromf(file, 4, 4)
        platform == platform_type_try_from(from_le_bytes(platform_raw.slice))
        size_raw == idx_file_offset_vromf(file, 8, 4)
        size == from_le_bytes(size_raw.slice)
        header_packed == idx_file_offset_vromf(file, 12, 4)
        packed == pack_type_from_aligned(from_le_bytes(header_packed.slice))
        pack_type == packed.pack_type
        extended_header_size == packed.extended_header_size
        extended_header == idx_file_offset_vromf(file, 16, 8)
        s == extended_header.slice
        version == <<s[8], s[7], s[6], s[5]>>
        inner_data ==
            IF is_extended(header_type.val)
            THEN IF ~extended_header.ok THEN extended_header
                 ELSE IF extended_header_size = 0
                 THEN [ok |-> TRUE, slice |-> From(file, 24), err |-> ""]
                 ELSE idx_file_offset_vromf(file, 24, extended_header_size)
            ELSE IF is_compressed(pack_type)
                 THEN idx_file_offset_vromf(file, 16, extended_header_size)
                 ELSE idx_file_offset_vromf(file, 16, size)
        metadata == [header_type |-> header_type.val, platform |-> platform.val,
                     packing |-> pack_type,
                     version |-> IF is_extended(header_type.val) THEN version ELSE <<>>]
    IN IF ~header_type_raw.ok THEN DecodeErr(header_type_raw.err)
       ELSE IF ~header_type.ok THEN DecodeErr(header_type.val)
       ELSE IF ~platform_raw.ok THEN DecodeErr(platform_raw.err)
       ELSE IF ~platform.ok THEN DecodeErr(platform.val)
       ELSE IF ~size_raw.ok THEN DecodeErr(size_raw.err)
       ELSE IF ~header_packed.ok THEN DecodeErr(header_packed.err)
       ELSE IF ~packed.ok THEN DecodeErr(packed.pack_type)
       ELSE IF ~inner_data.ok THEN DecodeErr(inner_data.err)
       ELSE IF ~is_obfuscated(pack_type) THEN Decoded(inner_data.slice, <<>>, metadata)
       ELSE IF ~is_compressed(pack_type)
       THEN Decoded(inner_data.slice, <<"deobfuscate">>, metadata)
       ELSE IF ~frame_ok THEN DecodeErr("ZstdError")
       ELSE Decoded(inner_data.slice, <<"deobfuscate", "zstd">>, metadata)

NoArchive == [given |-> FALSE]
NotDecoded == [status |-> "none"]

InitContainer ==
    /\ vromf = NoArchive
    /\ decoded = NotDecoded

\* the bytes of an archive: the four header words, the extended header of an
\* Extended archive (header_size, flags, version), and the body
ArchiveBytes(header_type, platform, size, packed, body) ==
    to_le_bytes(header_type, 4) \o to_le_bytes(platform, 4) \o to_le_bytes(size, 4)
    \o to_le_bytes(packed, 4)
    \o (IF header_type = 2
        THEN to_le_bytes(8, 2) \o to_le_bytes(0, 2) \o <<4, 3, 2, 1>>
        ELSE <<>>)
    \o body

\* an archive is written: its header words and a body of body_len bytes
NewArchive(header_type, platform, size, ext_size, bits, body_len) ==
    /\ ~vromf.given
    /\ LET body == [i \in 1..body_len |-> 10 + i]
       IN vromf' = [given |-> TRUE, header_type |-> header_type, platform |-> platform,
                    size |-> size, ext_size |-> ext_size, bits |-> bits, body |-> body,
                    file |-> ArchiveBytes(header_type, platform, size,
                                          64 * ext_size + bits, body)]
    /\ UNCHANGED <<decoded, treeVars, unpackerVars, docVars, parserVars>>

\* the file loses its last byte
Truncate ==
    /\ vromf.given
    /\ decoded.status = "none"
    /\ vromf.file # <<>>
    /\ vromf' = [vromf EXCEPT !.file = SubSeq(@, 1, Len(@) - 1)]
    /\ UNCHANGED <<decoded, treeVars, unpackerVars, docVars, parserVars>>

\* decode_bin_vromf(file)
DecodeBinVromf(frame_ok) ==
    /\ vromf.given
    /\ decoded.status = "none"
    /\ decoded' = decode_bin_vromf(vromf.file, frame_ok)
    /\ UNCHANGED <<vromf, treeVars, unpackerVars, docVars, parserVars>>

NextVromf ==
    \/ \E header_type \in 1..3, platform \in {1, 4}, size \in 0..MaxBody,
          ext_size \in 0..2, bits \in 0..4, body_len \in 0..MaxBody :
          NewArchive(header_type, platform, size, ext_size, bits, body_len)
    \/ Truncate
    \/ \E frame_ok \in BOOLEAN : DecodeBinVromf(frame_ok)

-----------------------------------------------------------------------------
(* Claims about decode_bin_vromf *)

\* the header words of the archive are known ones
HeaderKnown ==
    /\ vromf.header_type \in {1, 2}
    /\ vromf.platform \in 1..3
    /\ vromf.bits \in 0..3

\* the length of the fixed prefix, and the length of the payload by the table:
\* Extended with ext_size 0 the rest of the file, Extended otherwise and Simple
\* compressed ext_size bytes, Simple uncompressed size bytes
PrefixLen == IF vromf.header_type = 2 THEN 24 ELSE 16
PayloadLen ==
    IF vromf.header_type = 2
    THEN IF vromf.ext_size = 0 THEN Len(vromf.file) - PrefixLen ELSE vromf.ext_size
    ELSE IF vromf.bits \in {1, 3} THEN vromf.ext_size ELSE vromf.size

\* C24: decode_bin_vromf takes as inner payload the bytes that follow the fixed
\* prefix, as many as the table gives for the header type and packing, and
\* returns an error when the prefix or that range passes the end of the file
C24_PayloadLocated ==
    (decoded.status # "none" /\ (Len(vromf.file) >= 16 => HeaderKnown)) =>
        IF Len(vromf.file) < PrefixLen \/ PrefixLen + PayloadLen > Len(vromf.file)
        THEN decoded.status = "err"
        ELSE /\ decoded.status = "ok" \/ decoded.err = "ZstdError"
             /\ decoded.status = "ok" =>
                   decoded.inner_data = SubSeq(vromf.file, PrefixLen + 1,
                                               PrefixLen + PayloadLen)

\* C24 witness: an Extended archive with ext_size 2 and three bytes after the
\* prefix has been decoded to the first two of them
C24_Witness ==
    /\ decoded.status = "ok"
    /\ vromf.header_type = 2
    /\ vromf.ext_size = 2
    /\ Len(vromf.file) = 27
    /\ decoded.inner_data = <<11, 12>>

-----------------------------------------------------------------------------
(* Specifications *)

\* the unpacker: an archive, then any calls of unpack_one and unpack_blk, then
\* unpack_all, which consumes the unpacker
Init ==
    /\ InitUnpacker
    /\ InitBlk
    /\ InitDoc
    /\ InitImage
    /\ InitContainer

Spec == Init /\ [][Next]_vars

\* the tree model: a tree is built by insert_field and then transformed
InitTree ==
    /\ InitBlk
    /\ InitDoc
    /\ InitImage
    /\ InitContainer
    /\ files = <<>>
    /\ format = "none"
    /\ pc = "new"
    /\ total = 0
    /\ remaining = 0
    /\ iterPos = 1
    /\ full = FALSE
    /\ savedError = ""
    /\ wstate = [w \in Workers |-> "idle"]
    /\ witem = [w \in Workers |-> 0]
    /\ wout = [w \in Workers |-> <<>>]
    /\ result = NoResult
    /\ finished = 0
    /\ parseCalls = {}

SpecTree == InitTree /\ [][NextTree]_vars

\* the tree operations: a tree is built by insert_field, and merge_fields, the
\* two emitters and pointer run on it at any time
IdleUnpacker ==
    /\ files = <<>>
    /\ format = "none"
    /\ pc = "new"
    /\ total = 0
    /\ remaining = 0
    /\ iterPos = 1
    /\ full = FALSE
    /\ savedError = ""
    /\ wstate = [w \in Workers |-> "idle"]
    /\ witem = [w \in Workers |-> 0]
    /\ wout = [w \in Workers |-> <<>>]
    /\ result = NoResult
    /\ finished = 0
    /\ parseCalls = {}

InitDocSpec ==
    /\ InitDoc
    /\ InitBlk
    /\ IdleUnpacker
    /\ InitImage
    /\ InitContainer

SpecDoc == InitDocSpec /\ [][NextDoc]_vars

\* the binary parser: a payload is laid out, its block-info table is written,
\* and parse_blk reads it
InitParseSpec ==
    /\ InitImage
    /\ InitBlk
    /\ InitDoc
    /\ IdleUnpacker
    /\ InitContainer

SpecParse == InitParseSpec /\ [][NextParse]_vars

\* the outer decoder: an archive file is written, loses bytes at its end, and
\* decode_bin_vromf reads it
InitVromfSpec ==
    /\ InitContainer
    /\ InitImage
    /\ InitBlk
    /\ InitDoc
    /\ IdleUnpacker

SpecVromf == InitVromfSpec /\ [][NextVromf]_vars

====
